---- MODULE Spec2Model ----
(***************************************************************************)
(* The single-pass bytecode compiler of src/src/vm/compiler.c as a state   *)
(* machine.  The recursive-descent parser is unfolded into an explicit     *)
(* stack of activation frames: one action per C function, resumed at the   *)
(* point after each recursive call.  Bytes of a chunk are numbers 0..255,  *)
(* so an operand byte can be mistaken for an opcode exactly as in C.       *)
(***************************************************************************)
EXTENDS Integers, Sequences, FiniteSets, TLC

VARIABLES
  src,          \* the token lexemes the scanner reads (input of compile)
  repl,         \* vm->repl (input of compile)
  parser,       \* Parser: current, previous, hadError, panicMode
  pos,          \* scanner position: index in src of the next token
  fns,          \* heap of ObjFunction objects
  comps,        \* chain of open Compiler records, innermost last
  stack,        \* C call stack of the parser: activation frames
  log,          \* diagnostics written to stderr by errorAt
  vmConstants,  \* keys of vm->constants
  ub,           \* undefined behaviour has been executed in this run
  result        \* what compile returned: "running", "NULL", "function", "crashed"

vars == <<src, repl, parser, pos, fns, comps, stack, log, vmConstants, ub, result>>

-----------------------------------------------------------------------------
(* Limits of the C types.                                                  *)
UINT8_MAX == 255
UINT8_COUNT == 256
UINT16_MAX == 65535

(* Opcode numbering: the enum itself is outside src/; the order below is   *)
(* the conventional one with OP_CONSTANT first.                            *)
OpNames ==
  << "CONSTANT", "NIL", "TRUE", "FALSE", "POP", "POP_REPL",
     "GET_LOCAL", "SET_LOCAL", "GET_GLOBAL", "GET_MODULE", "DEFINE_MODULE",
     "SET_MODULE", "DEFINE_OPTIONAL", "GET_UPVALUE", "SET_UPVALUE",
     "GET_PROPERTY", "GET_PROPERTY_NO_POP", "SET_PROPERTY", "SET_CLASS_VAR",
     "GET_SUPER", "EQUAL", "GREATER", "LESS", "ADD", "SUBTRACT", "MULTIPLY",
     "DIVIDE", "POW", "MOD", "NOT", "NEGATE", "BITWISE_AND", "BITWISE_XOR",
     "BITWISE_OR", "JUMP", "JUMP_IF_FALSE", "LOOP", "BREAK", "IMPORT",
     "IMPORT_VARIABLE", "IMPORT_FROM", "IMPORT_END", "CALL", "INVOKE",
     "INVOKE_INTERNAL", "SUPER", "CLOSURE", "CLOSE_UPVALUE", "RETURN",
     "EMPTY", "CLASS", "SUBCLASS", "END_CLASS", "METHOD" >>

OpNum == [n \in {OpNames[i] : i \in DOMAIN OpNames} |->
            (CHOOSE i \in DOMAIN OpNames : OpNames[i] = n) - 1]

Op(n) == OpNum[n]

(* Precedence levels, ascending.                                           *)
Prec == [NONE |-> 0, ASSIGNMENT |-> 1, OR |-> 2, AND |-> 3, EQUALITY |-> 4,
         COMPARISON |-> 5, TERM |-> 6, FACTOR |-> 7, INDICES |-> 8,
         UNARY |-> 9, CALL |-> 10, PRIMARY |-> 11]

-----------------------------------------------------------------------------
(* Tokens.  A token is its kind and its lexeme.                            *)

FixedTokens ==
  ("(" :> "LEFT_PAREN") @@ (")" :> "RIGHT_PAREN") @@ ("{" :> "LEFT_BRACE") @@
  ("}" :> "RIGHT_BRACE") @@ ("," :> "COMMA") @@ ("." :> "DOT") @@
  ("-" :> "MINUS") @@ ("+" :> "PLUS") @@ (";" :> "SEMICOLON") @@
  ("/" :> "SLASH") @@ ("*" :> "STAR") @@ ("%" :> "PERCENT") @@
  ("**" :> "STAR_STAR") @@ ("!=" :> "BANG_EQUAL") @@ ("=" :> "EQUAL") @@
  ("==" :> "EQUAL_EQUAL") @@ (">" :> "GREATER") @@ (">=" :> "GREATER_EQUAL") @@
  ("<" :> "LESS") @@ ("<=" :> "LESS_EQUAL") @@ ("+=" :> "PLUS_EQUALS") @@
  ("-=" :> "MINUS_EQUALS") @@ ("*=" :> "MULTIPLY_EQUALS") @@
  ("/=" :> "DIVIDE_EQUALS") @@ ("&=" :> "AMPERSAND_EQUALS") @@
  ("^=" :> "CARET_EQUALS") @@ ("|=" :> "PIPE_EQUALS") @@
  ("..." :> "DOT_DOT_DOT") @@ ("&" :> "AMPERSAND") @@ ("^" :> "CARET") @@
  ("|" :> "PIPE") @@
  ("and" :> "AND") @@ ("class" :> "CLASS") @@ ("else" :> "ELSE") @@
  ("false" :> "FALSE") @@ ("for" :> "FOR") @@ ("def" :> "DEF") @@
  ("if" :> "IF") @@ ("nil" :> "NIL") @@ ("or" :> "OR") @@
  ("return" :> "RETURN") @@ ("super" :> "SUPER") @@ ("this" :> "THIS") @@
  ("true" :> "TRUE") @@ ("var" :> "VAR") @@ ("while" :> "WHILE") @@
  ("break" :> "BREAK") @@ ("continue" :> "CONTINUE") @@
  ("import" :> "IMPORT") @@ ("from" :> "FROM") @@ ("as" :> "AS") @@
  ("not" :> "NOT") @@ ("r" :> "R")

(* Number literals of the inputs and the value strtod gives each.          *)
NumberOf ==
  ("0" :> 0) @@ ("1" :> 1) @@ ("2" :> 2) @@ ("3" :> 3) @@ ("4" :> 4) @@
  ("5" :> 5) @@ ("6" :> 6) @@ ("7" :> 7)

(* String literals of the inputs, quotes included, and the bytes between    *)
(* their quotes.                                                            *)
StringBytes ==
  ("\"hi\\n\"" :> <<104, 105, 92, 110>>) @@ ("\"q\"" :> <<113>>) @@
  ("\"\\q\"" :> <<92, 113>>) @@ ("\"\\\\n\"" :> <<92, 92, 110>>) @@
  ("\"q\\\"\\t\"" :> <<113, 92, 34, 92, 116>>)

(* The interned string object of a byte sequence.                           *)
TextOf ==
  (<<104, 105, 10>> :> "hi\n") @@ (<<104, 105, 92, 110>> :> "hi\\n") @@
  (<<113>> :> "q") @@ (<<92, 113>> :> "\\q") @@ (<<92, 110>> :> "\\n") @@
  (<<92, 92, 110>> :> "\\\\n") @@ (<<113, 34, 9>> :> "q\"\t") @@
  (<<113, 92, 34, 92, 116>> :> "q\\\"\\t")

(* A character the scanner rejects: it yields one TOKEN_ERROR.             *)
BadLexemes == {"@"}

Lex(s) ==
  [type |-> IF s \in DOMAIN FixedTokens THEN FixedTokens[s]
            ELSE IF s \in DOMAIN NumberOf THEN "NUMBER"
            ELSE IF s \in DOMAIN StringBytes THEN "STRING"
            ELSE IF s \in BadLexemes THEN "ERROR"
            ELSE "IDENTIFIER",
   lex |-> s]

EOFToken == [type |-> "EOF", lex |-> ""]

(* The contents of a Token variable that was never assigned.                *)
NoToken == [type |-> "UNSET", lex |-> ""]

(* rules[]: prefix handler, infix handler, precedence of each token kind.   *)
Rule(type) ==
  CASE type = "LEFT_PAREN"    -> [prefix |-> "grouping", infix |-> "call",   prec |-> Prec.CALL]
    [] type = "DOT"           -> [prefix |-> "NULL",     infix |-> "dot",    prec |-> Prec.CALL]
    [] type = "MINUS"         -> [prefix |-> "unary",    infix |-> "binary", prec |-> Prec.TERM]
    [] type = "PLUS"          -> [prefix |-> "NULL",     infix |-> "binary", prec |-> Prec.TERM]
    [] type = "SLASH"         -> [prefix |-> "NULL",     infix |-> "binary", prec |-> Prec.FACTOR]
    [] type = "STAR"          -> [prefix |-> "NULL",     infix |-> "binary", prec |-> Prec.FACTOR]
    [] type = "NOT"           -> [prefix |-> "unary",    infix |-> "NULL",   prec |-> Prec.NONE]
    [] type = "BANG_EQUAL"    -> [prefix |-> "NULL",     infix |-> "binary", prec |-> Prec.EQUALITY]
    [] type = "EQUAL_EQUAL"   -> [prefix |-> "NULL",     infix |-> "binary", prec |-> Prec.EQUALITY]
    [] type = "GREATER"       -> [prefix |-> "NULL",     infix |-> "binary", prec |-> Prec.COMPARISON]
    [] type = "GREATER_EQUAL" -> [prefix |-> "NULL",     infix |-> "binary", prec |-> Prec.COMPARISON]
    [] type = "LESS"          -> [prefix |-> "NULL",     infix |-> "binary", prec |-> Prec.COMPARISON]
    [] type = "LESS_EQUAL"    -> [prefix |-> "NULL",     infix |-> "binary", prec |-> Prec.COMPARISON]
    [] type = "IDENTIFIER"    -> [prefix |-> "variable", infix |-> "NULL",   prec |-> Prec.NONE]
    [] type = "STRING"        -> [prefix |-> "string",   infix |-> "NULL",   prec |-> Prec.NONE]
    [] type = "NUMBER"        -> [prefix |-> "number",   infix |-> "NULL",   prec |-> Prec.NONE]
    [] type = "AND"           -> [prefix |-> "NULL",     infix |-> "and_",   prec |-> Prec.AND]
    [] type = "FALSE"         -> [prefix |-> "literal",  infix |-> "NULL",   prec |-> Prec.NONE]
    [] type = "NIL"           -> [prefix |-> "literal",  infix |-> "NULL",   prec |-> Prec.NONE]
    [] type = "OR"            -> [prefix |-> "NULL",     infix |-> "or_",    prec |-> Prec.OR]
    [] type = "SUPER"         -> [prefix |-> "super_",   infix |-> "NULL",   prec |-> Prec.NONE]
    [] type = "THIS"          -> [prefix |-> "this_",    infix |-> "NULL",   prec |-> Prec.NONE]
    [] type = "TRUE"          -> [prefix |-> "literal",  infix |-> "NULL",   prec |-> Prec.NONE]
    [] type = "PERCENT"       -> [prefix |-> "NULL",     infix |-> "binary", prec |-> Prec.FACTOR]
    [] type = "STAR_STAR"     -> [prefix |-> "NULL",     infix |-> "binary", prec |-> Prec.INDICES]
    [] OTHER                  -> [prefix |-> "NULL",     infix |-> "NULL",   prec |-> Prec.NONE]

-----------------------------------------------------------------------------
(* Values of the constant pool.  A number is the fraction n/d in lowest     *)
(* terms, d > 0; d = 0 stands for the IEEE infinities (n = 1, -1) and NaN   *)
(* (n = 0).  "junk" is what a read of memory that holds no number gives.    *)

RECURSIVE Gcd(_, _)
Gcd(a, b) == IF b = 0 THEN a ELSE Gcd(b, a % b)

Abs(x) == IF x < 0 THEN -x ELSE x
Sign(x) == IF x < 0 THEN -1 ELSE IF x > 0 THEN 1 ELSE 0

Frac(n, d) ==
  IF d = 0 THEN [k |-> "num", n |-> Sign(n), d |-> 0, s |-> ""]
  ELSE LET g == Gcd(Abs(n), Abs(d))
       IN [k |-> "num", n |-> Sign(d) * (n \div g), d |-> Abs(d) \div g, s |-> ""]

NUMBER_VAL(n) == Frac(n, 1)
STRING_VAL(s) == [k |-> "str", n |-> 0, d |-> 1, s |-> s]
FUNCTION_VAL(f) == [k |-> "fn", n |-> f, d |-> 1, s |-> ""]
JunkValue == [k |-> "junk", n |-> 0, d |-> 1, s |-> ""]

(* The C operators + - * / on doubles, and unary minus.                     *)
Arith(operator, a, b) ==
  IF a.k # "num" \/ b.k # "num" THEN JunkValue
  ELSE CASE operator = "PLUS"  ->
              IF a.d = 0 /\ b.d = 0
                THEN (IF a.n = b.n THEN a ELSE Frac(0, 0))
              ELSE IF a.d = 0 THEN a ELSE IF b.d = 0 THEN b
              ELSE Frac(a.n * b.d + b.n * a.d, a.d * b.d)
         [] operator = "MINUS" ->
              IF a.d = 0 /\ b.d = 0
                THEN (IF a.n = -b.n THEN a ELSE Frac(0, 0))
              ELSE IF a.d = 0 THEN a ELSE IF b.d = 0 THEN Frac(-b.n, 0)
              ELSE Frac(a.n * b.d - b.n * a.d, a.d * b.d)
         [] operator = "STAR"  ->
              IF a.d = 0 \/ b.d = 0 THEN Frac(Sign(a.n) * Sign(b.n), 0)
              ELSE Frac(a.n * b.n, a.d * b.d)
         [] operator = "SLASH" ->
              IF a.d = 0 /\ b.d = 0 THEN Frac(0, 0)
              ELSE IF a.d = 0 THEN Frac(a.n * (IF b.n < 0 THEN -1 ELSE 1), 0)
              ELSE IF b.d = 0 THEN (IF b.n = 0 THEN Frac(0, 0) ELSE Frac(0, 1))
              ELSE IF b.n = 0 THEN Frac(Sign(a.n), 0)
              ELSE Frac(a.n * b.d, a.d * b.n)

Negate(a) == IF a.k # "num" THEN JunkValue ELSE Frac(-a.n, a.d)

-----------------------------------------------------------------------------
(* The machine state as one record, so that the C statements of a handler   *)
(* compose as functions m -> m.                                             *)

M == [parser |-> parser, pos |-> pos, fns |-> fns, comps |-> comps,
      stack |-> stack, log |-> log, vmConstants |-> vmConstants,
      ub |-> ub, result |-> result]

(* vm->globals: the natives the VM defines before any compilation.          *)
VmGlobals == {"print"}

Frame(fn) ==
  [fn |-> fn, pc |-> 0, prec |-> 0, canAssign |-> FALSE, tok |-> NoToken,
   op |-> "", a |-> 0, b |-> 0, c |-> 0, flag |-> FALSE]

Top(m) == m.stack[Len(m.stack)]
Ret(m) == [m EXCEPT !.stack = SubSeq(@, 1, Len(@) - 1)]
Resume(m, f) == [m EXCEPT !.stack[Len(m.stack)] = f]
TailCall(m, callee) == Resume(m, callee)
Call(m, resume, callee) == [m EXCEPT !.stack = Append([@ EXCEPT ![Len(@)] = resume], callee)]

(* A wild memory access: behaviour is undefined from here on.               *)
Undefined(m) == [m EXCEPT !.ub = TRUE]
(* A null-pointer dereference: the process dies.                            *)
Crash(m) == [m EXCEPT !.ub = TRUE, !.stack = <<>>, !.result = "crashed"]

-----------------------------------------------------------------------------
(* Error reporting and token handling.                                      *)

(* errorAt as it would be without its panic-mode check.                     *)
errorAtAlways(m, token, message) ==
  [m EXCEPT !.parser.panicMode = TRUE,
            !.parser.hadError = TRUE,
            !.log = Append(@, message)]

(* errorAt as it would be if it failed to set hadError.                      *)
errorAtKeepsFlag(m, token, message) ==
  IF m.parser.panicMode THEN m
  ELSE [m EXCEPT !.parser.panicMode = TRUE,
                 !.log = Append(@, message)]

errorAt(m, token, message) ==
  IF m.parser.panicMode THEN m
  ELSE [m EXCEPT !.parser.panicMode = TRUE,
                 !.parser.hadError = TRUE,
                 !.log = Append(@, message)]

error(m, message) == errorAt(m, m.parser.previous, message)

errorAtCurrent(m, message) == errorAt(m, m.parser.current, message)

(* scanToken: the next token of the source, TOKEN_EOF for ever at its end.  *)
scanToken(m) ==
  IF m.pos > Len(src) THEN [tok |-> EOFToken, pos |-> m.pos]
  ELSE [tok |-> Lex(src[m.pos]), pos |-> m.pos + 1]

(* backTrack, called once per byte of the current token: the scanner is     *)
(* back at the start of that token.                                         *)
backTrack(m) ==
  IF m.parser.current.type = "EOF" THEN m ELSE [m EXCEPT !.pos = @ - 1]

RECURSIVE advanceLoop(_)
advanceLoop(m) ==
  LET s == scanToken(m)
      m1 == [m EXCEPT !.parser.current = s.tok, !.pos = s.pos]
  IN IF s.tok.type # "ERROR" THEN m1
     ELSE advanceLoop(errorAtCurrent(m1, s.tok.lex))

advance(m) == advanceLoop([m EXCEPT !.parser.previous = m.parser.current])

check(m, type) == m.parser.current.type = type

consume(m, type, message) ==
  IF check(m, type) THEN advance(m) ELSE errorAtCurrent(m, message)

(* match: the state after it; whether it matched is check() before it.      *)
match(m, type) == IF check(m, type) THEN advance(m) ELSE m

-----------------------------------------------------------------------------
(* Chunks and emission.  C arrays are 0-based: code[i] is Byte(code, i).    *)

Cur(m) == Len(m.comps)
FnOf(m, ci) == m.comps[ci].function
Code(m, ci) == m.fns[FnOf(m, ci)].code
Count(m) == Len(Code(m, Cur(m)))
Byte(code, i) == code[i + 1]

emitByteTo(m, ci, byte) ==
  [m EXCEPT !.fns[FnOf(m, ci)].code = Append(@, byte % 256)]

emitByte(m, byte) == emitByteTo(m, Cur(m), byte)

emitBytes(m, byte1, byte2) == emitByte(emitByte(m, byte1), byte2)

emitLoop(m, loopStart) ==
  LET m1 == emitByte(m, Op("LOOP"))
      offset == Count(m1) - loopStart + 2
      m2 == IF offset > UINT16_MAX THEN error(m1, "Loop body too large.") ELSE m1
  IN emitByte(emitByte(m2, (offset \div 256) % 256), offset % 256)

(* emitJump: the state after it; the offset it returns is Count - 2.        *)
emitJump(m, instruction) ==
  emitByte(emitByte(emitByte(m, instruction), 255), 255)

emitReturn(m) ==
  LET m1 == IF m.comps[Cur(m)].type = "INITIALIZER"
              THEN emitBytes(m, Op("GET_LOCAL"), 0)
              ELSE emitByte(m, Op("NIL"))
  IN emitByte(m1, Op("RETURN"))

(* makeConstant: addConstant appends the value whatever the index is.       *)
makeConstantIndex(m, ci) ==
  LET constant == Len(m.fns[FnOf(m, ci)].constants)
  IN IF constant > UINT8_MAX THEN 0 ELSE constant

(* makeConstant as it would be without the test of the index.               *)
makeConstantToUnchecked(m, ci, value) ==
  [m EXCEPT !.fns[FnOf(m, ci)].constants = Append(@, value)]

makeConstantTo(m, ci, value) ==
  LET constant == Len(m.fns[FnOf(m, ci)].constants)
      m1 == [m EXCEPT !.fns[FnOf(m, ci)].constants = Append(@, value)]
  IN IF constant > UINT8_MAX
       THEN error(m1, "Too many constants in one chunk.")
       ELSE m1

makeConstant(m, value) == makeConstantTo(m, Cur(m), value)

emitConstant(m, value) ==
  LET idx == makeConstantIndex(m, Cur(m))
  IN emitBytes(makeConstant(m, value), Op("CONSTANT"), idx)

(* patchJump writes the two offset bytes; outside the bytes written so far  *)
(* the store is a wild one.                                                 *)
patchJump(m, offset) ==
  LET jump == Count(m) - offset - 2
      m1 == IF jump > UINT16_MAX THEN error(m, "Too much code to jump over.") ELSE m
      f == FnOf(m, Cur(m))
  IN IF offset < 0 \/ offset + 1 >= Count(m)
       THEN Undefined([m1 EXCEPT !.fns[f].code =
                         [i \in DOMAIN @ |->
                            IF i = offset + 1 THEN (jump \div 256) % 256 ELSE @[i]]])
       ELSE [m1 EXCEPT !.fns[f].code[offset + 1] = (jump \div 256) % 256,
                       !.fns[f].code[offset + 2] = jump % 256]

-----------------------------------------------------------------------------
(* Compilers, scopes and variables.  comps[ci] is a Compiler; its enclosing *)
(* compiler is comps[ci - 1]; locals[i] of C is locals[i + 1] here.         *)

Max(S) == CHOOSE x \in S : \A y \in S : y <= x

(* The least k with 2^k >= n.                                               *)
RECURSIVE Log2(_)
Log2(n) == IF n <= 1 THEN 0 ELSE 1 + Log2((n + 1) \div 2)

newFunction(name) ==
  [name |-> name, arity |-> 0, arityOptional |-> 0, isVariadic |-> FALSE,
   upvalueCount |-> 0, code |-> <<>>, constants |-> <<>>]

initCompiler(m, type) ==
  LET name == IF type = "TOP_LEVEL" THEN "" ELSE m.parser.previous.lex
      local == [name |-> IF type \in {"METHOD", "INITIALIZER"} THEN "this" ELSE "",
                depth |-> 0, isUpvalue |-> FALSE, constant |-> FALSE]
      parent == Cur(m)
      compiler == [function |-> Len(m.fns) + 1, type |-> type,
                   locals |-> <<local>>, upvalues |-> <<>>, scopeDepth |-> 0,
                   loops |-> <<>>, stringConstants |-> <<>>,
                   enclosing |-> parent,
                   class |-> IF parent # 0 THEN m.comps[parent].class ELSE <<>>]
  IN [m EXCEPT !.fns = Append(@, newFunction(name)),
               !.comps = Append(@, compiler),
               !.parser.vm.compiler = parent + 1]

(* endCompiler as it would be if it wrote each pair as (index, isLocal).     *)
endCompilerSwapsPairs(m) ==
  LET m1 == emitReturn(m)
      ci == Cur(m1)
      function == FnOf(m1, ci)
      ups == m1.comps[ci].upvalues
      idx == makeConstantIndex(m1, ci - 1)
      m2 == emitByteTo(emitByteTo(makeConstantTo(m1, ci - 1, FUNCTION_VAL(function)),
                                  ci - 1, Op("CLOSURE")), ci - 1, idx)
      upBytes == [i \in 1..(2 * Len(ups)) |->
                    IF i % 2 = 0 THEN (IF ups[i \div 2].isLocal THEN 1 ELSE 0)
                    ELSE ups[(i + 1) \div 2].index]
      m3 == IF ci > 1
              THEN [m2 EXCEPT !.fns[FnOf(m2, ci - 1)].code = @ \o upBytes]
              ELSE m1
  IN [m3 EXCEPT !.comps = SubSeq(@, 1, ci - 1),
                !.parser.vm.compiler = m1.comps[ci].enclosing]

endCompiler(m) ==
  LET m1 == emitReturn(m)
      ci == Cur(m1)
      function == FnOf(m1, ci)
      ups == m1.comps[ci].upvalues
      idx == makeConstantIndex(m1, ci - 1)
      m2 == emitByteTo(emitByteTo(makeConstantTo(m1, ci - 1, FUNCTION_VAL(function)),
                                  ci - 1, Op("CLOSURE")), ci - 1, idx)
      upBytes == [i \in 1..(2 * Len(ups)) |->
                    IF i % 2 = 1 THEN (IF ups[(i + 1) \div 2].isLocal THEN 1 ELSE 0)
                    ELSE ups[i \div 2].index]
      m3 == IF ci > 1
              THEN [m2 EXCEPT !.fns[FnOf(m2, ci - 1)].code = @ \o upBytes]
              ELSE m1
  IN [m3 EXCEPT !.comps = SubSeq(@, 1, ci - 1),
                !.parser.vm.compiler = m1.comps[ci].enclosing]

beginScope(m) == [m EXCEPT !.comps[Cur(m)].scopeDepth = @ + 1]

(* The while loop of endScope: the locals above the last one that is not   *)
(* deeper than scopeDepth are dropped from the top, one byte for each.      *)
endScopeLoop(m) ==
  LET c == m.comps[Cur(m)]
      L == c.locals
      n == Len(L)
      keep == Max({0} \cup {i \in 1..n : L[i].depth <= c.scopeDepth})
      bytes == [j \in 1..(n - keep) |->
                  IF L[n + 1 - j].isUpvalue THEN Op("CLOSE_UPVALUE") ELSE Op("POP")]
  IN [m EXCEPT !.fns[FnOf(m, Cur(m))].code = @ \o bytes,
               !.comps[Cur(m)].locals = SubSeq(@, 1, keep)]

endScope(m) == endScopeLoop([m EXCEPT !.comps[Cur(m)].scopeDepth = @ - 1])

(* identifierConstant: the index it returns, then the state after it.       *)
identifierConstantIndex(m, name) ==
  LET t == m.comps[Cur(m)].stringConstants
  IN IF name \in DOMAIN t THEN t[name] ELSE makeConstantIndex(m, Cur(m))

identifierConstant(m, name) ==
  LET t == m.comps[Cur(m)].stringConstants
  IN IF name \in DOMAIN t THEN m
     ELSE [makeConstant(m, STRING_VAL(name))
             EXCEPT !.comps[Cur(m)].stringConstants =
                      (name :> makeConstantIndex(m, Cur(m))) @@ @]

identifiersEqual(a, b) == a = b

resolveLocalIndex(m, ci, name) ==
  LET L == m.comps[ci].locals
      S == {i \in 1..Len(L) : identifiersEqual(name, L[i].name)}
  IN IF S = {} THEN -1 ELSE Max(S) - 1

(* resolveLocal as it would be if it made no difference between callers.    *)
resolveLocalAnyCaller(m, ci, name, inFunction) ==
  LET i == resolveLocalIndex(m, ci, name)
  IN IF i # -1 /\ m.comps[ci].locals[i + 1].depth = -1
       THEN error(m, "Cannot read local variable in its own initializer.")
       ELSE m

resolveLocal(m, ci, name, inFunction) ==
  LET i == resolveLocalIndex(m, ci, name)
  IN IF i # -1 /\ ~inFunction /\ m.comps[ci].locals[i + 1].depth = -1
       THEN error(m, "Cannot read local variable in its own initializer.")
       ELSE m

addUpvalueIndex(m, ci, index, isLocal) ==
  LET ups == m.comps[ci].upvalues
      S == {i \in 1..Len(ups) : ups[i].index = index /\ ups[i].isLocal = isLocal}
  IN IF S # {} THEN (CHOOSE i \in S : \A j \in S : i <= j) - 1
     ELSE IF Len(ups) = UINT8_COUNT THEN 0
     ELSE Len(ups)

(* addUpvalue as it would be without the search for an existing upvalue.    *)
addUpvalueAlwaysAppends(m, ci, index, isLocal, constant) ==
  LET ups == m.comps[ci].upvalues
  IN IF Len(ups) = UINT8_COUNT
       THEN error(m, "Too many closure variables in function.")
     ELSE [m EXCEPT !.comps[ci].upvalues =
                      Append(@, [index |-> index, isLocal |-> isLocal,
                                 constant |-> constant]),
                    !.fns[FnOf(m, ci)].upvalueCount = @ + 1]

addUpvalue(m, ci, index, isLocal, constant) ==
  LET ups == m.comps[ci].upvalues
  IN IF \E i \in 1..Len(ups) : ups[i].index = index /\ ups[i].isLocal = isLocal
       THEN m
     ELSE IF Len(ups) = UINT8_COUNT
       THEN error(m, "Too many closure variables in function.")
     ELSE [m EXCEPT !.comps[ci].upvalues =
                      Append(@, [index |-> index, isLocal |-> isLocal,
                                 constant |-> constant]),
                    !.fns[FnOf(m, ci)].upvalueCount = @ + 1]

(* resolveUpvalue returns a pair: the state after it and the index.         *)
RECURSIVE resolveUpvalue(_, _, _)
resolveUpvalue(m, ci, name) ==
  IF ci = 1 THEN [m |-> m, v |-> -1]
  ELSE
    LET local == resolveLocalIndex(m, ci - 1, name)
        m0 == resolveLocal(m, ci - 1, name, TRUE)
    IN IF local # -1
         THEN LET m1 == [m0 EXCEPT !.comps[ci - 1].locals[local + 1].isUpvalue = TRUE]
                  k == m1.comps[ci - 1].locals[local + 1].constant
              IN [m |-> addUpvalue(m1, ci, local % 256, TRUE, k),
                  v |-> addUpvalueIndex(m1, ci, local % 256, TRUE)]
         ELSE LET r == resolveUpvalue(m0, ci - 1, name)
              IN IF r.v # -1
                   THEN LET k == r.m.comps[ci - 1].upvalues[r.v + 1].constant
                        IN [m |-> addUpvalue(r.m, ci, r.v % 256, FALSE, k),
                            v |-> addUpvalueIndex(r.m, ci, r.v % 256, FALSE)]
                   ELSE [m |-> r.m, v |-> -1]

(* addLocal as it would be without the test of localCount.                  *)
addLocalUnchecked(m, name) ==
  [m EXCEPT !.comps[Cur(m)].locals =
              Append(@, [name |-> name, depth |-> -1,
                         isUpvalue |-> FALSE, constant |-> FALSE])]

addLocal(m, name) ==
  IF Len(m.comps[Cur(m)].locals) = UINT8_COUNT
    THEN error(m, "Too many local variables in function.")
    ELSE [m EXCEPT !.comps[Cur(m)].locals =
                     Append(@, [name |-> name, depth |-> -1,
                                isUpvalue |-> FALSE, constant |-> FALSE])]

(* declareVariable as it would be if it searched all locals of the function. *)
declareVariableAnyScope(m, name) ==
  LET c == m.comps[Cur(m)]
      L == c.locals
      clash == \E i \in 1..Len(L) : identifiersEqual(name, L[i].name)
  IN IF c.scopeDepth = 0 THEN m
     ELSE addLocal(IF clash
                     THEN errorAt(m, name, "Variable with this name already declared in this scope.")
                     ELSE m,
                   name)

declareVariable(m, name) ==
  LET c == m.comps[Cur(m)]
      L == c.locals
      Stops(j) == L[j].depth # -1 /\ L[j].depth < c.scopeDepth
      clash == \E i \in 1..Len(L) :
                 /\ identifiersEqual(name, L[i].name)
                 /\ \A j \in i..Len(L) : ~Stops(j)
  IN IF c.scopeDepth = 0 THEN m
     ELSE addLocal(IF clash
                     THEN errorAt(m, name, "Variable with this name already declared in this scope.")
                     ELSE m,
                   name)

(* parseVariable: the index it returns is that of identifierConstant at     *)
(* depth 0 and 0 in a local scope.                                          *)
parseVariable(m, errorMessage) ==
  LET m1 == consume(m, "IDENTIFIER", errorMessage)
  IN IF m1.comps[Cur(m1)].scopeDepth = 0
       THEN identifierConstant(m1, m1.parser.previous.lex)
       ELSE declareVariable(m1, m1.parser.previous.lex)

parseVariableIndex(m, errorMessage) ==
  LET m1 == consume(m, "IDENTIFIER", errorMessage)
  IN IF m1.comps[Cur(m1)].scopeDepth = 0
       THEN identifierConstantIndex(m1, m1.parser.previous.lex)
       ELSE 0

defineVariable(m, global, constant) ==
  LET c == m.comps[Cur(m)]
      n == Len(c.locals)
      key == m.fns[c.function].constants[global + 1]
  IN IF c.scopeDepth = 0
       THEN emitBytes(IF constant THEN [m EXCEPT !.vmConstants = @ \cup {key.s}] ELSE m,
                      Op("DEFINE_MODULE"), global)
       ELSE [m EXCEPT !.comps[Cur(m)].locals[n].depth = c.scopeDepth,
                      !.comps[Cur(m)].locals[n].constant = constant]

-----------------------------------------------------------------------------
(* Constant folding and operator emission.                                  *)

(* FOLD of foldBinary: a pair, the state after it and whether it folded.    *)
(* values[constant] outside the pool is a wild read and a wild write.       *)
foldBinary(m, operatorType) ==
  LET f == FnOf(m, Cur(m))
      code == m.fns[f].code
      count == Len(code)
      values == m.fns[f].constants
  IN IF operatorType \notin {"PLUS", "MINUS", "STAR", "SLASH"}
       THEN [m |-> m, v |-> FALSE]
     ELSE IF count < 4
       THEN [m |-> Undefined(m), v |-> FALSE]
     ELSE
       LET index == Byte(code, count - 1)
           constant == Byte(code, count - 3)
           wild == constant >= Len(values) \/ index >= Len(values)
           a == IF constant < Len(values) THEN values[constant + 1] ELSE JunkValue
           b == IF index < Len(values) THEN values[index + 1] ELSE JunkValue
           stored == IF constant < Len(values)
                       THEN [values EXCEPT ![constant + 1] = Arith(operatorType, a, b)]
                       ELSE values
           m1 == [m EXCEPT !.fns[f].constants = SubSeq(stored, 1, Len(stored) - 1),
                           !.fns[f].code = SubSeq(code, 1, count - 2)]
       IN IF Byte(code, count - 2) # Op("CONSTANT") THEN [m |-> m, v |-> FALSE]
          ELSE IF Byte(code, count - 4) # Op("CONSTANT") THEN [m |-> m, v |-> FALSE]
          ELSE [m |-> IF wild THEN Undefined(m1) ELSE m1, v |-> TRUE]

(* The switch of binary: the bytes it emits for an operator.                *)
BinaryBytes(operatorType) ==
  CASE operatorType = "BANG_EQUAL"    -> <<Op("EQUAL"), Op("NOT")>>
    [] operatorType = "EQUAL_EQUAL"   -> <<Op("EQUAL")>>
    [] operatorType = "GREATER"       -> <<Op("GREATER")>>
    [] operatorType = "GREATER_EQUAL" -> <<Op("LESS"), Op("NOT")>>
    [] operatorType = "LESS"          -> <<Op("LESS")>>
    [] operatorType = "LESS_EQUAL"    -> <<Op("GREATER"), Op("NOT")>>
    [] operatorType = "PLUS"          -> <<Op("ADD")>>
    [] operatorType = "MINUS"         -> <<Op("SUBTRACT")>>
    [] operatorType = "STAR"          -> <<Op("MULTIPLY")>>
    [] operatorType = "SLASH"         -> <<Op("DIVIDE")>>
    [] operatorType = "AMPERSAND"     -> <<Op("BITWISE_AND")>>
    [] operatorType = "CARET"         -> <<Op("BITWISE_XOR")>>
    [] operatorType = "PIPE"          -> <<Op("BITWISE_OR")>>
    [] OTHER                          -> <<>>

emitSeq(m, bytes) == [m EXCEPT !.fns[FnOf(m, Cur(m))].code = @ \o bytes]

(* foldUnary: a pair, the state after it and whether it folded.             *)
foldUnary(m, operatorType) ==
  LET f == FnOf(m, Cur(m))
      code == m.fns[f].code
      count == Len(code)
      values == m.fns[f].constants
      valueToken == m.parser.previous.type
      Overwrite(byte) ==
        IF count = 0 THEN Undefined(m)
        ELSE [m EXCEPT !.fns[f].code[count] = byte]
  IN IF operatorType = "NOT" /\ valueToken = "TRUE"
       THEN [m |-> Overwrite(Op("FALSE")), v |-> TRUE]
     ELSE IF operatorType = "NOT" /\ valueToken = "FALSE"
       THEN [m |-> Overwrite(Op("TRUE")), v |-> TRUE]
     ELSE IF operatorType = "MINUS" /\ valueToken = "NUMBER"
       THEN IF count = 0 THEN [m |-> Undefined(m), v |-> TRUE]
            ELSE LET constant == Byte(code, count - 1)
                 IN IF constant < Len(values)
                      THEN [m |-> [m EXCEPT !.fns[f].constants[constant + 1] = Negate(@)],
                            v |-> TRUE]
                      ELSE [m |-> Undefined(m), v |-> TRUE]
     ELSE [m |-> m, v |-> FALSE]

UnaryBytes(operatorType) ==
  CASE operatorType = "NOT"   -> <<Op("NOT")>>
    [] operatorType = "MINUS" -> <<Op("NEGATE")>>
    [] OTHER                  -> <<>>

LiteralBytes(type) ==
  CASE type = "FALSE" -> <<Op("FALSE")>>
    [] type = "NIL"   -> <<Op("NIL")>>
    [] type = "TRUE"  -> <<Op("TRUE")>>
    [] OTHER          -> <<>>

parseNumber(m) == NUMBER_VAL(NumberOf[m.parser.previous.lex])

number(m) == emitConstant(m, parseNumber(m))

literal(m) == emitSeq(m, LiteralBytes(m.parser.previous.type))

(* The byte parseEscapeSequences stores for the character after a           *)
(* backslash; -1 where it leaves the two characters alone.                  *)
EscapeOf(char) ==
  CASE char = 110 -> 10
    [] char = 116 -> 9
    [] char = 114 -> 13
    [] char = 118 -> 11
    [] char \in {92, 39, 34} -> char
    [] OTHER -> -1

(* The loop of parseEscapeSequences from index i on.                        *)
RECURSIVE parseEscapeSequencesFrom(_, _)
parseEscapeSequencesFrom(string, i) ==
  LET length == Len(string)
  IN IF ~(i < length - 1) THEN string
     ELSE IF string[i + 1] # 92 \/ EscapeOf(string[i + 2]) = -1
       THEN parseEscapeSequencesFrom(string, i + 1)
     ELSE parseEscapeSequencesFrom(
            SubSeq(string, 1, i) \o <<EscapeOf(string[i + 2])>>
              \o SubSeq(string, i + 3, length), i + 1)

parseEscapeSequences(string) == parseEscapeSequencesFrom(string, 0)

parseString(m) ==
  STRING_VAL(TextOf[parseEscapeSequences(StringBytes[m.parser.previous.lex])])

string(m) == emitConstant(m, parseString(m))

(* rString, which no entry of rules names.                                  *)
rString(m) ==
  IF check(m, "STRING")
    THEN LET m1 == match(m, "STRING")
         IN emitConstant(m1, STRING_VAL(TextOf[StringBytes[m1.parser.previous.lex]]))
    ELSE consume(m, "STRING", "Expected string after r delimiter")

(* checkConst as it would be without the branch of OP_SET_MODULE.           *)
checkConstLocalsOnly(m, setOp, arg) ==
  LET c == m.comps[Cur(m)]
  IN IF setOp = Op("SET_LOCAL")
       THEN IF c.locals[arg + 1].constant
              THEN error(m, "Cannot assign to a constant.") ELSE m
     ELSE IF setOp = Op("SET_UPVALUE")
       THEN IF c.upvalues[arg + 1].constant
              THEN error(m, "Cannot assign to a constant.") ELSE m
     ELSE m

checkConst(m, setOp, arg) ==
  LET c == m.comps[Cur(m)]
      values == m.fns[c.function].constants
  IN IF setOp = Op("SET_LOCAL")
       THEN IF c.locals[arg + 1].constant
              THEN error(m, "Cannot assign to a constant.") ELSE m
     ELSE IF setOp = Op("SET_UPVALUE")
       THEN IF c.upvalues[arg + 1].constant
              THEN error(m, "Cannot assign to a constant.") ELSE m
     ELSE IF setOp = Op("SET_MODULE")
       THEN IF values[arg + 1].s \in m.vmConstants
              THEN error(m, "Cannot assign to a constant.") ELSE m
     ELSE m

-----------------------------------------------------------------------------
(* Inputs of compile.                                                        *)

(* Expressions of numbers, locals and module variables.                     *)
FoldPrograms ==
  { <<"1", "+", "2", "*", "3", ";">>,
    <<"1", "+", "2", "+", "3", ";">>,
    <<"-", "(", "-", "5", ")", ";">>,
    <<"not", "true", ";">>,
    <<"not", "not", "true", ";">>,
    <<"not", "false", ";">>,
    <<"-", "-", "5", ";">>,
    <<"6", "/", "3", "-", "1", ";">>,
    <<"1", "/", "0", ";">>,
    <<"(", "1", ")", "+", "2", ";">>,
    <<"1", "+", "(", "2", ")", ";">>,
    <<"1", "+", "2", "%", "3", ";">>,
    <<"1", "+", "2", "**", "3", ";">>,
    <<"2", "*", "3", "+", "a", ";">>,
    <<"a", "+", "1", "+", "2", ";">>,
    <<"{", "var", "a", ";", "a", "+", "1", "+", "2", ";", "}">>,
    <<"{", "var", "a", ";", "a", "*", "2", "-", "3", ";", "}">>,
    <<"{", "var", "a", ";", "1", "+", "2", "+", "a", ";", "}">>,
    <<"-", "not", "5", ";">>,
    <<"not", "-", "true", ";">>,
    <<"1", "<", "2", ";">>,
    <<"1", ">=", "2", ";">>,
    <<"1", "<=", "2", ";">>,
    <<"1", ">", "2", ";">>,
    <<"1", "==", "2", ";">>,
    <<"1", "!=", "2", ";">>,
    <<"-", "a", ";">>,
    <<"not", "a", ";">>,
    <<"a", "%", "b", ";">>,
    <<"a", "**", "b", ";">>,
    <<"1", "+", "f", "(", ")", "%", "2", ";">>,
    <<"f", ";", "1", "+", "(", "not", "f", ")", "%", "2", ";">>,
    <<"a", ";", "b", ";", "c", ";", "1", "+", "a", "%", "true", "%", "3", ";">>,
    <<"nil", ";">> }

(* Declarations, assignments and name resolution.                           *)
VariablePrograms ==
  { <<"var", "a", "=", "1", ",", "b", ";", "a", "=", "b", ";">>,
    <<"a", "=", "1", ";">>,
    <<"a", "+=", "1", ";">>,
    <<"a", "-=", "1", ";", "a", "*=", "2", ";", "a", "/=", "2", ";">>,
    <<"a", "&=", "1", ";", "a", "^=", "1", ";", "a", "|=", "1", ";">>,
    <<"{", "var", "a", "=", "1", ";", "a", "=", "2", ";", "a", "+=", "3",
      ";", "}">>,
    <<"{", "var", "a", "=", "1", ";", "{", "var", "a", "=", "2", ";", "a",
      ";", "}", "a", ";", "}">>,
    <<"{", "var", "a", "=", "a", ";", "}">>,
    <<"{", "var", "a", ";", "var", "a", ";", "}">>,
    <<"var", "a", ";", "var", "a", ";">>,
    <<"+", "var", "a", ";", "a", ";">>,
    <<"var", "a", "=", "while", "(", "a", ")", "a", ";">>,
    <<"+", "a", "@", ";", "+", ";", "+", ";">>,
    <<"{", "var", "a", ";", "var", "@", "a", ";", "}">>,
    <<"{", "var", "a", ";", "var", "a", "@", ";", "}">>,
    <<"{", "var", ";", "var", ";", "}">>,
    <<"def", "f", "(", "a", ",", "a", ")", "{", "}">>,
    <<"def", "f", "(", "a", ")", "{", "var", "a", ";", "{", "var", "a", ";", "}", "}">>,
    <<"{", "def", "f", "(", ")", "{", "}", "def", "f", "(", ")", "{", "}", "}">>,
    <<"{", "var", "f", ";", "{", "def", "f", "(", ")", "{", "}", "}", "}">>,
    <<"{", "var", "a", "=", "a", "=", "1", ";", "}">>,
    <<"{", "var", "a", "=", "a", "+=", "1", ";", "}">>,
    <<"{", "var", "a", ";", "{", "var", "a", "=", "1", "+", "a", ";", "}", "}">>,
    <<"{", "var", "a", "=", "f", "(", "+", ",", "a", ")", ";", "}">>,
    <<"{", "def", "f", "(", ")", "{", "f", ";", "f", "=", "1", ";", "}", "}">>,
    <<"{", "def", "f", "(", "x", "=", "f", ")", "{", "def", "g", "(", ")", "{",
      "f", "(", ")", ";", "}", "}", "f", ";", "}">>,
    <<"print", ";", "print", "(", "1", ")", ";">>,
    <<"print", "=", "1", ";">>,
    <<"print", "+=", "1", ";">>,
    <<"if", "(", "+", ")", "print", "=", "1", ";">>,
    <<"1", "=", "2", ";">>,
    <<"a", "+", "b", "=", "1", ";">>,
    <<"f", "(", "+", ",", "a", "+", "b", "=", "1", ")", ";">>,
    <<"{", "var", "a", ";", "-", "a", "=", "1", ";", "a", "and", "a", "=", "2", ";", "}">>,
    <<"k", ";">>,
    <<"k", "=", "2", ";">>,
    <<"k", "+=", "2", ";">>,
    <<"if", "(", "+", ")", "k", "=", "2", ";">>,
    <<"f", "(", "+", ",", "k", "=", "2", ")", ";">>,
    <<"var", "k", "=", "1", ";", "k", "=", "2", ";">>,
    <<"{", "var", "k", "=", "1", ";", "k", "=", "2", ";", "}">>,
    <<"def", "f", "(", ")", "{", "k", "=", "1", ";", "}">>,
    <<"{", "var", "print", ";", "print", ";", "print", "=", "1", ";", "}">>,
    <<"def", "f", "(", "print", ")", "{", "def", "g", "(", ")", "{", "print",
      ";", "print", "=", "2", ";", "}", "}">>,
    <<"def", "f", "(", "a", ")", "{", "def", "g", "(", ")", "{", "var", "a",
      ";", "{", "var", "a", ";", "a", "=", "1", ";", "}", "a", ";", "}", "}">> }

(* Branches, loops, break and continue.                                     *)
ControlPrograms ==
  { <<"if", "(", "a", ")", "b", ";", "else", "c", ";">>,
    <<"if", "(", "a", ")", "{", "b", ";", "}">>,
    <<"a", "and", "b", "or", "c", ";">>,
    <<"a", "or", "b", "and", "1", "+", "2", ";">>,
    <<"while", "(", "a", ")", "{", "b", ";", "}">>,
    <<"while", "{", "break", ";", "}">>,
    <<"while", "(", "true", ")", "{", "a", "=", "1", ";", "break", ";",
      "}">>,
    <<"while", "(", "true", ")", "{", "a", ";", "break", ";", "}">>,
    <<"while", "(", "a", ")", "{", "if", "(", "b", ")", "break", ";",
      "continue", ";", "}">>,
    <<"while", "(", "a", ")", "{", "var", "x", "=", "1", ";", "if", "(",
      "x", ")", "break", ";", "}">>,
    <<"while", "(", "a", ")", "{", "var", "x", ";", "while", "(", "b", ")",
      "{", "var", "y", ";", "break", ";", "}", "continue", ";", "}">>,
    <<"for", "(", "var", "i", "=", "0", ";", "i", "<", "3", ";", "i", "=",
      "i", "+", "1", ")", "{", "break", ";", "}">>,
    <<"for", "(", ";", ";", ")", "{", "break", ";", "}">>,
    <<"for", "(", ";", "a", ";", "a", ")", "{", "a", "=", "1", ";", "break", ";", "}">>,
    <<"for", "(", ";", "a", ";", "a", ")", "{", "a", ";", "if", "(", "a", ")", "continue", ";",
      "for", "(", ";", "b", ";", "b", ")", "continue", ";", "break", ";", "}">>,
    <<"for", "(", "i", "=", "0", ";", "i", "<", "3", ";", "i", "=", "i", "+",
      "1", ")", "{", "continue", ";", "}">>,
    <<"for", "(", "i", "=", "0", ";", "i", "<", "3", ";", ")", "{",
      "continue", ";", "}">>,
    <<"for", "(", ";", ";", "i", "=", "i", "+", "1", ")", "{", "if", "(",
      "i", ")", "break", ";", "}">>,
    <<"{", "var", "a", ";", "while", "(", "a", ")", "{", "a", "=", "1", ";",
      "break", ";", "}", "}">>,
    <<"def", "f", "(", ")", "{", "while", "(", "true", ")", "{", "def", "g",
      "(", ")", "{", "}", "break", ";", "}", "}">>,
    <<"while", "(", "a", ")", "{", "var", "b", ";", "break", ";", "b", ";", "}">>,
    <<"while", "(", "a", ")", "{", "var", "b", ";", "def", "f", "(", ")", "{", "return",
      "b", ";", "}", "continue", ";", "b", ";", "}">>,
    <<"break", ";">>,
    <<"continue", ";">>,
    <<"if", "(", "+", ")", "continue", ";">>,
    <<"def", "f", "(", ")", "{", "break", ";", "}">>,
    <<"while", "(", "a", ")", "{", "def", "f", "(", ")", "{", "break", ";",
      "}", "}">> }

(* Functions, calls, returns and closures.                                  *)
FunctionPrograms ==
  { <<"def", "f", "(", ")", "{", "}", "f", "(", ")", ";">>,
    <<"def", "f", "(", "a", ",", "b", ")", "{", "return", "a", "+", "b",
      ";", "}", "f", "(", "1", ",", "2", ")", ";">>,
    <<"def", "f", "(", "a", ",", "b", "=", "1", ")", "{", "return", ";",
      "}">>,
    <<"def", "f", "(", "a", "=", "1", ",", "b", ")", "{", "}">>,
    <<"def", "f", "(", "var", "a", ")", "{", "}">>,
    <<"def", "f", "(", "...", "a", ")", "{", "f", "(", "...", "a", ")", ";",
      "}">>,
    <<"def", "f", "(", "...", "a", "=", "1", ",", "b", ")", "{", "}">>,
    <<"f", "(", "...", "a", ",", "b", ")", ";">>,
    <<"return", ";">>,
    <<"return", "1", ";">>,
    <<"def", "outer", "(", ")", "{", "var", "a", "=", "1", ";", "def", "inner", "(", ")",
      "{", "return", "a", ";", "}", "return", "inner", ";", "}">>,
    <<"def", "outer", "(", ")", "{", "{", "var", "a", "=", "1", ";", "def", "inner", "(", ")",
      "{", "return", "a", ";", "}", "}", "}">>,
    <<"def", "f", "(", "a", ")", "{", "def", "g", "(", ")", "{", "return",
      "a", ";", "}", "}">>,
    <<"def", "f", "(", "a", ")", "{", "def", "g", "(", ")", "{", "def", "h",
      "(", ")", "{", "return", "a", ";", "}", "}", "}">>,
    <<"def", "f", "(", "a", ")", "{", "def", "g", "(", ")", "{", "a", ";",
      "a", "=", "1", ";", "a", "+=", "1", ";", "}", "}">>,
    <<"def", "f", "(", "a", ",", "b", ")", "{", "def", "g", "(", ")", "{",
      "def", "h", "(", ")", "{", "b", ";", "a", ";", "b", ";", "}", "a", ";",
      "}", "}">>,
    <<"def", "f", "(", "a", ")", "{", "def", "g", "(", "a", ")", "{", "def",
      "h", "(", ")", "{", "return", "a", ";", "}", "}", "}">>,
    <<"def", "f", "(", "a", ")", "{", "def", "g", "(", ")", "{", "var", "a",
      ";", "def", "h", "(", ")", "{", "a", ";", "}", "}", "}">>,
    <<"{", "var", "a", ";", "def", "f", "(", ")", "{", "a", ";", "}", "}">>,
    <<"{", "var", "a", ";", "{", "var", "b", ";", "def", "f", "(", ")", "{",
      "b", ";", "}", "}", "a", ";", "}">>,
    <<"{", "var", "a", ";", "while", "(", "a", ")", "{", "var", "b", ";",
      "def", "f", "(", ")", "{", "b", ";", "}", "break", ";", "}", "}">>,
    <<"def", "f", "(", ")", "{", "def", "g", "(", ")", "{", "x", ";",
      "print", ";", "}", "}">>,
    <<"def", "f", "(", "a", ")", "{", "def", "g", "(", ")", "{", "def", "h",
      "(", ")", "{", "a", "=", "1", ";", "}", "}", "return", "g", ";", "}">> }

(* Programs with syntax errors.                                             *)
ErrorPrograms ==
  { <<"@">>,
    <<"1", "+", ";">>,
    <<"1", "@", "+", "2", ";">>,
    <<"(", "1", ";">>,
    <<"var", ";">>,
    <<"var", "a", "=", ";", "b", ";">>,
    <<"def", "(", ")", "{", "}">>,
    <<"def", "f", "(", "{", "}">>,
    <<"def", "f", "(", ")", ";">>,
    <<"{", "1", ";">>,
    <<"if", "a", ";">>,
    <<"while", "(", "a", "b", ";">>,
    <<"for", "(", "var", "i", ";", "i", ")", ";">>,
    <<"for", "a", ";">>,
    <<"f", "(", "1", ";">>,
    <<"a", "=", ";">>,
    <<"+", ";", "1", ";">>,
    <<"1", "2", ";">>,
    <<"{", "@", "}">>,
    <<"break">> }


MaxOperators == 2
PoolFill == 257

ChainAtoms == {"1", "2", "a"}
ChainOps == {"+", "*", "%"}

(* The expressions x0 op1 x1 ... opn xn of at most MaxOperators operators.  *)
RECURSIVE Chains(_)
Chains(n) ==
  IF n = 0 THEN {<<x>> : x \in ChainAtoms}
  ELSE Chains(n - 1) \cup
       {c \o <<o, x>> : c \in {d \in Chains(n - 1) : Len(d) = 2 * n - 1},
                        o \in ChainOps, x \in ChainAtoms}

(* Each chain as a statement of a block in which a is a local.              *)
ChainPrograms == {<<"{", "var", "a", ";">> \o c \o <<";", "}">> : c \in Chains(MaxOperators)}

(* PoolFill statements, each adding one number to the constant pool, alone  *)
(* and followed by a statement that adds one more after a syntax error.     *)
FillProgram(n) == [i \in 1..(2 * n) |-> IF i % 2 = 1 THEN "1" ELSE ";"]

LongPrograms ==
  { FillProgram(PoolFill), FillProgram(PoolFill - 1),
    FillProgram(PoolFill - 1) \o <<"if", "(", "+", ")", "1", ";">> }

UpvalueFill == 257

(* n declarations  var <prefix>1 ; .. var <prefix>n ;  and n statements     *)
(* <prefix>1 ; .. <prefix>n ;                                                *)
Declarations(prefix, n) ==
  [i \in 1..(3 * n) |->
     CASE i % 3 = 1 -> "var"
       [] i % 3 = 2 -> prefix \o ToString((i + 1) \div 3)
       [] OTHER -> ";"]

Uses(prefix, n) ==
  [i \in 1..(2 * n) |-> IF i % 2 = 1 THEN prefix \o ToString((i + 1) \div 2) ELSE ";"]

(* A function h that uses n variables of its ancestors: half of them locals *)
(* of f, the others locals of g.                                            *)
CaptureProgram(n) ==
  <<"def", "f", "(", ")", "{">> \o Declarations("a", n \div 2)
    \o <<"def", "g", "(", ")", "{">> \o Declarations("b", n - n \div 2)
    \o <<"def", "h", "(", ")", "{">> \o Uses("a", n \div 2) \o Uses("b", n - n \div 2)
    \o <<"}", "}", "}">>

CapturePrograms == {CaptureProgram(UpvalueFill), CaptureProgram(UpvalueFill - 1)}

LoopFill == 92

(* A while loop whose body is n statements  a ;  then  a = 1 ; a ;          *)
(* continue ; a ;                                                           *)
LoopProgram(n) ==
  <<"while", "(", "a", ")", "{">>
    \o [i \in 1..(2 * n) |-> IF i % 2 = 1 THEN "a" ELSE ";"]
    \o <<"a", "=", "1", ";", "a", ";", "continue", ";", "a", ";", "}">>

LoopTail == 88

(* The same loop with t more statements  a ;  at the end of its body.       *)
LoopProgramWithTail(n, t) ==
  SubSeq(LoopProgram(n), 1, Len(LoopProgram(n)) - 1)
    \o [i \in 1..(2 * t) |-> IF i % 2 = 1 THEN "a" ELSE ";"] \o <<"}">>

LoopPrograms ==
  { LoopProgram(LoopFill), LoopProgram(LoopFill - 1),
    LoopProgramWithTail(LoopFill, LoopTail) }

LocalFill == 256

(* A block of n declarations: with the reserved slot 0 the block asks for   *)
(* n + 1 locals.  The last program asks for the last one after a syntax     *)
(* error.                                                                   *)
LocalProgram(n) == <<"{">> \o Declarations("v", n) \o <<"}">>

LocalPrograms ==
  { LocalProgram(LocalFill), LocalProgram(LocalFill - 1),
    <<"{">> \o Declarations("v", LocalFill - 1) \o <<"var", ";", "}">> }

(* String literals, plain and r-prefixed.                                   *)
StringPrograms ==
  { <<"\"hi\\n\"", "+", "r", "\"hi\\n\"", ";">>,
    <<"\"hi\\n\"", "+", "\"q\"", ";">>,
    <<"1", "+", "\"\\q\"", ";">>,
    <<"var", "a", "=", "\"\\\\n\"", ";">>,
    <<"\"q\\\"\\t\"", ";">>,
    <<"r", "\"q\"", ";">> }

(* Class declarations: at the top level and in a block, with and without a *)
(* superclass, with class variables, methods and an initializer, nested,   *)
(* and cut short.                                                           *)
ClassPrograms ==
  { <<"class", "A", "{", "}">>,
    <<"class", "A", "<", "B", "{", "var", "v", "=", "1", ";", "init", "(", "var", "a",
      ")", "{", "}", "m", "(", ")", "{", "return", "1", ";", "}", "}">>,
    <<"{", "class", "A", "{", "}", "A", ";", "}">>,
    <<"{", "class", "A", "<", "B", "{", "}", "A", ";", "}">>,
    <<"{", "var", "x", ";", "class", "A", "<", "B", "{", "m", "(", ")", "{", "}", "}", "}">>,
    <<"while", "(", "a", ")", "{", "var", "x", ";", "class", "A", "<", "B", "{", "}",
      "break", ";", "}">>,
    <<"class", "A", "{", "m", "(", ")", "{", "class", "B", "{", "n", "(", ")", "{", "}",
      "}", "def", "f", "(", ")", "{", "}", "}", "}", "def", "g", "(", ")", "{", "}">>,
    <<"def", "f", "(", ")", "{", "class", "A", "<", "B", "{", "init", "(", "...", "a",
      ")", "{", "return", "1", ";", "}", "}", "return", "A", ";", "}">>,
    <<"class", ";">>,
    <<"class", "A">>,
    <<"class", "A", "{", "var", "}">>,
    <<"class", "A", "{", "m", "(", "@", "}">> }

Programs ==
  ClassPrograms \cup StringPrograms \cup FoldPrograms \cup VariablePrograms \cup ControlPrograms \cup FunctionPrograms
    \cup ErrorPrograms \cup ChainPrograms \cup LongPrograms \cup CapturePrograms
    \cup LoopPrograms \cup LocalPrograms

(* vm->constants on entry: empty, or holding the name k.                    *)
ConstantTables(source) ==
  IF \E i \in DOMAIN source : source[i] = "k" THEN {{}, {"k"}} ELSE {{}}

-----------------------------------------------------------------------------
(* The state machine.                                                       *)

(* The state in which compile is entered.                                   *)
Entry(source, isRepl, constants) ==
  /\ src = source
  /\ repl = isRepl
  /\ vmConstants = constants
  /\ parser = [current |-> NoToken, previous |-> NoToken,
               hadError |-> FALSE, panicMode |-> FALSE,
               vm |-> [compiler |-> 0]]
  /\ pos = 1
  /\ fns = <<>>
  /\ comps = <<>>
  /\ stack = <<Frame("compile")>>
  /\ log = <<>>
  /\ ub = FALSE
  /\ result = "running"

Init ==
  \E source \in Programs, isRepl \in BOOLEAN :
    \E constants \in ConstantTables(source) : Entry(source, isRepl, constants)

(* One step of the program ends in the state m.  The first undefined        *)
(* operation of a run either goes unnoticed or kills the process.           *)
Commit(m) ==
  \E outcome \in (IF m.ub /\ ~ub THEN {"continues", "crashes"} ELSE {"continues"}) :
    LET n == IF outcome = "crashes" THEN Crash(m) ELSE m
    IN /\ parser' = n.parser
       /\ pos' = n.pos
       /\ fns' = n.fns
       /\ comps' = n.comps
       /\ stack' = n.stack
       /\ log' = n.log
       /\ vmConstants' = n.vmConstants
       /\ ub' = n.ub
       /\ result' = n.result
       /\ UNCHANGED <<src, repl>>

At(fn) == stack # <<>> /\ stack[Len(stack)].fn = fn

(* compile, from its last statements on: endCompiler and the return.        *)
compileEnd(m) ==
  LET m1 == endCompiler(m)
      m2 == IF ~repl THEN [m1 EXCEPT !.vmConstants = {}] ELSE m1
  IN [Ret(m2) EXCEPT !.result = IF m2.parser.hadError THEN "NULL" ELSE "function"]

compileStep(m) ==
  LET f == Top(m)
      m0 == IF f.pc = 0 THEN advance(initCompiler(m, "TOP_LEVEL")) ELSE m
  IN IF check(m0, "EOF")
       THEN compileEnd(match(m0, "EOF"))
       ELSE Call(m0, [f EXCEPT !.pc = 1], Frame("declaration"))

compile == At("compile") /\ Commit(compileStep(M))

synchronizeSkip(m) == m.parser.current.type # "EOF" /\ m.parser.previous.type # "SEMICOLON"

RECURSIVE synchronizeLoop(_)
synchronizeLoop(m) ==
  IF synchronizeSkip(m) THEN synchronizeLoop(advance(m)) ELSE m

synchronize(m) == synchronizeLoop([m EXCEPT !.parser.panicMode = FALSE])

declarationStep(m) ==
  LET f == Top(m)
      next == [f EXCEPT !.pc = 1]
  IN IF f.pc = 0
       THEN IF check(m, "CLASS")
              THEN Call(match(m, "CLASS"), next, Frame("classDeclaration"))
            ELSE IF check(m, "DEF")
              THEN Call(match(m, "DEF"), next, Frame("funDeclaration"))
            ELSE IF check(m, "VAR")
              THEN Call(match(m, "VAR"), next, Frame("varDeclaration"))
            ELSE Call(m, next, Frame("statement"))
       ELSE Ret(IF m.parser.panicMode THEN synchronize(m) ELSE m)

declaration == At("declaration") /\ Commit(declarationStep(M))

expressionFrame == [Frame("parsePrecedence") EXCEPT !.prec = Prec.ASSIGNMENT]

(* The look-ahead of expressionStatement and of the block statement: the    *)
(* kind of the token after the current one, the scanner put back.           *)
peekType(m) == advance(m).parser.current.type

peek(m) ==
  [backTrack(advance(m)) EXCEPT !.parser.current = m.parser.current,
                                !.parser.previous = m.parser.previous]

expressionStatementStep(m) ==
  LET f == Top(m)
      c == m.comps[Cur(m)]
      m1 == consume(m, "SEMICOLON", "Expect ';' after expression.")
  IN IF f.pc = 0
       THEN Call(peek(m), [f EXCEPT !.pc = 1, !.op = peekType(m)], expressionFrame)
       ELSE Ret(IF repl /\ f.op # "EQUAL" /\ c.type = "TOP_LEVEL"
                  THEN emitByte(m1, Op("POP_REPL"))
                  ELSE emitByte(m1, Op("POP")))

expressionStatement == At("expressionStatement") /\ Commit(expressionStatementStep(M))

-----------------------------------------------------------------------------
(* Expressions.                                                             *)

(* namedVariable up to its chain of match() tests: the state after the      *)
(* resolution, the two opcodes, the operand and canAssign.                  *)
(* namedVariable as it would be if it looked the name up in vm->globals     *)
(* before resolving it as a local or an upvalue.                            *)
resolveNameGlobalsFirst(m, name, canAssign) ==
  LET ci == Cur(m)
      local == resolveLocalIndex(m, ci, name)
      m1 == resolveLocal(m, ci, name, FALSE)
      up == resolveUpvalue(m1, ci, name)
  IN IF name \in VmGlobals
       THEN [m |-> identifierConstant(m, name), getOp |-> Op("GET_GLOBAL"), setOp |-> -1,
             arg |-> identifierConstantIndex(m, name), canAssign |-> FALSE]
     ELSE IF local # -1
       THEN [m |-> m1, getOp |-> Op("GET_LOCAL"), setOp |-> Op("SET_LOCAL"),
             arg |-> local, canAssign |-> canAssign]
     ELSE IF up.v # -1
       THEN [m |-> up.m, getOp |-> Op("GET_UPVALUE"), setOp |-> Op("SET_UPVALUE"),
             arg |-> up.v, canAssign |-> canAssign]
     ELSE [m |-> identifierConstant(up.m, name), getOp |-> Op("GET_MODULE"),
           setOp |-> Op("SET_MODULE"),
           arg |-> identifierConstantIndex(up.m, name), canAssign |-> canAssign]

resolveName(m, name, canAssign) ==
  LET ci == Cur(m)
      local == resolveLocalIndex(m, ci, name)
      m1 == resolveLocal(m, ci, name, FALSE)
      up == resolveUpvalue(m1, ci, name)
      m2 == identifierConstant(up.m, name)
  IN IF local # -1
       THEN [m |-> m1, getOp |-> Op("GET_LOCAL"), setOp |-> Op("SET_LOCAL"),
             arg |-> local, canAssign |-> canAssign]
     ELSE IF up.v # -1
       THEN [m |-> up.m, getOp |-> Op("GET_UPVALUE"), setOp |-> Op("SET_UPVALUE"),
             arg |-> up.v, canAssign |-> canAssign]
     ELSE IF name \in VmGlobals
       THEN [m |-> m2, getOp |-> Op("GET_GLOBAL"), setOp |-> -1,
             arg |-> identifierConstantIndex(up.m, name), canAssign |-> FALSE]
     ELSE [m |-> m2, getOp |-> Op("GET_MODULE"), setOp |-> Op("SET_MODULE"),
           arg |-> identifierConstantIndex(up.m, name), canAssign |-> canAssign]

CompoundOps ==
  ("PLUS_EQUALS" :> "ADD") @@ ("MINUS_EQUALS" :> "SUBTRACT") @@
  ("MULTIPLY_EQUALS" :> "MULTIPLY") @@ ("DIVIDE_EQUALS" :> "DIVIDE") @@
  ("AMPERSAND_EQUALS" :> "BITWISE_AND") @@ ("CARET_EQUALS" :> "BITWISE_XOR") @@
  ("PIPE_EQUALS" :> "BITWISE_OR")

namedVariableStep(m) ==
  LET f == Top(m)
      r == resolveName(m, f.tok.lex, f.canAssign)
      t == r.m.parser.current.type
      m1 == checkConst(advance(r.m), r.setOp, r.arg)
      inner == resolveName(m1, f.tok.lex, FALSE)
      tail == [f EXCEPT !.a = r.arg, !.b = r.setOp, !.op = t]
  IN IF f.pc = 0
       THEN IF r.canAssign /\ t = "EQUAL"
              THEN Call(m1, [tail EXCEPT !.pc = 1], expressionFrame)
            ELSE IF r.canAssign /\ t \in DOMAIN CompoundOps
              THEN Call(emitBytes(inner.m, inner.getOp, inner.arg),
                        [tail EXCEPT !.pc = 2], expressionFrame)
            ELSE Ret(emitBytes(r.m, r.getOp, r.arg))
     ELSE IF f.pc = 1
       THEN Ret(emitBytes(m, f.b, f.a))
     ELSE Ret(emitBytes(emitByte(m, Op(CompoundOps[f.op])), f.b, f.a))

namedVariable == At("namedVariable") /\ Commit(namedVariableStep(M))

(* The while loop of parsePrecedence and what follows it.                   *)
parsePrecedenceLoop(m) ==
  LET f == Top(m)
      m1 == advance(m)
      infixRule == Rule(m1.parser.previous.type).infix
  IN IF f.prec <= Rule(m.parser.current.type).prec
       THEN Call(m1, [f EXCEPT !.pc = 1],
                 [Frame(infixRule) EXCEPT !.tok = m.parser.previous,
                                          !.canAssign = f.canAssign,
                                          !.a = f.a, !.b = Count(m1)])
     ELSE IF f.canAssign /\ check(m, "EQUAL")
       THEN Ret(error(match(m, "EQUAL"), "Invalid assignment target."))
     ELSE Ret(m)

(* parsePrecedence as it would be if every call allowed an assignment.     *)
parsePrecedenceStepAlwaysAssigns(m) ==
  LET f == Top(m)
      m1 == advance(m)
      prefixRule == Rule(m1.parser.previous.type).prefix
      g == [f EXCEPT !.pc = 1, !.canAssign = TRUE, !.a = Count(m)]
      m2 == Resume(m1, g)
  IN IF f.pc = 1 THEN parsePrecedenceLoop(m)
     ELSE IF prefixRule = "NULL" THEN Ret(error(m1, "Expect expression."))
     ELSE IF prefixRule = "number" THEN parsePrecedenceLoop(number(m2))
     ELSE IF prefixRule = "literal" THEN parsePrecedenceLoop(literal(m2))
     ELSE IF prefixRule = "string" THEN parsePrecedenceLoop(string(m2))
     ELSE IF prefixRule = "variable"
       THEN Call(m1, g, [Frame("namedVariable") EXCEPT !.tok = m1.parser.previous,
                                                       !.canAssign = TRUE])
     ELSE Call(m1, g, [Frame(prefixRule) EXCEPT !.canAssign = TRUE])

(* parsePrecedence.  Frame field a is the chunk length on entry: where the  *)
(* code of the expression parsed by this call starts.                       *)
parsePrecedenceStep(m) ==
  LET f == Top(m)
      m1 == advance(m)
      prefixRule == Rule(m1.parser.previous.type).prefix
      canAssign == f.prec <= Prec.ASSIGNMENT
      g == [f EXCEPT !.pc = 1, !.canAssign = canAssign, !.a = Count(m)]
      m2 == Resume(m1, g)
  IN IF f.pc = 1 THEN parsePrecedenceLoop(m)
     ELSE IF prefixRule = "NULL" THEN Ret(error(m1, "Expect expression."))
     ELSE IF prefixRule = "number" THEN parsePrecedenceLoop(number(m2))
     ELSE IF prefixRule = "literal" THEN parsePrecedenceLoop(literal(m2))
     ELSE IF prefixRule = "string" THEN parsePrecedenceLoop(string(m2))
     ELSE IF prefixRule = "variable"
       THEN Call(m1, g, [Frame("namedVariable") EXCEPT !.tok = m1.parser.previous,
                                                       !.canAssign = canAssign])
     ELSE Call(m1, g, [Frame(prefixRule) EXCEPT !.canAssign = canAssign])

parsePrecedence == At("parsePrecedence") /\ Commit(parsePrecedenceStep(M))

groupingStep(m) ==
  LET f == Top(m)
  IN IF f.pc = 0
       THEN Call(m, [f EXCEPT !.pc = 1], expressionFrame)
       ELSE Ret(consume(m, "RIGHT_PAREN", "Expect ')' after expression."))

grouping == At("grouping") /\ Commit(groupingStep(M))

unaryStep(m) ==
  LET f == Top(m)
      folded == foldUnary(m, f.op)
  IN IF f.pc = 0
       THEN Call(m, [f EXCEPT !.pc = 1, !.op = m.parser.previous.type],
                 [Frame("parsePrecedence") EXCEPT !.prec = Prec.UNARY])
     ELSE IF folded.v THEN Ret(folded.m)
     ELSE Ret(emitSeq(m, UnaryBytes(f.op)))

unary == At("unary") /\ Commit(unaryStep(M))

(* binary.  Frame fields: tok is previousToken; a and b are the chunk       *)
(* offsets where the code of the left and of the right operand start.       *)
binaryStep(m) ==
  LET f == Top(m)
      operatorType == m.parser.previous.type
      currentToken == m.parser.previous.type
      tryFold == f.tok.type = "NUMBER" /\ currentToken \in {"NUMBER", "LEFT_PAREN"}
      folded == foldBinary(m, f.op)
  IN IF f.pc = 0
       THEN Call(m, [f EXCEPT !.pc = 1, !.op = operatorType],
                 [Frame("parsePrecedence") EXCEPT !.prec = Rule(operatorType).prec + 1])
     ELSE IF tryFold /\ folded.v THEN Ret(folded.m)
     ELSE Ret(emitSeq(m, BinaryBytes(f.op)))

binary == At("binary") /\ Commit(binaryStep(M))

(* and_ as it would be if it popped the left operand before the jump.      *)
and_StepPopsFirst(m) ==
  LET f == Top(m)
      m1 == emitJump(emitByte(m, Op("POP")), Op("JUMP_IF_FALSE"))
      endJump == Count(m1) - 2
  IN IF f.pc = 0
       THEN Call(m1, [f EXCEPT !.pc = 1, !.a = endJump],
                 [Frame("parsePrecedence") EXCEPT !.prec = Prec.AND])
       ELSE Ret(patchJump(m, f.a))

and_Step(m) ==
  LET f == Top(m)
      m1 == emitJump(m, Op("JUMP_IF_FALSE"))
      endJump == Count(m1) - 2
  IN IF f.pc = 0
       THEN Call(emitByte(m1, Op("POP")), [f EXCEPT !.pc = 1, !.a = endJump],
                 [Frame("parsePrecedence") EXCEPT !.prec = Prec.AND])
       ELSE Ret(patchJump(m, f.a))

and_ == At("and_") /\ Commit(and_Step(M))

or_Step(m) ==
  LET f == Top(m)
      m1 == emitJump(m, Op("JUMP_IF_FALSE"))
      elseJump == Count(m1) - 2
      m2 == emitJump(m1, Op("JUMP"))
      endJump == Count(m2) - 2
  IN IF f.pc = 0
       THEN Call(emitByte(patchJump(m2, elseJump), Op("POP")),
                 [f EXCEPT !.pc = 1, !.a = endJump],
                 [Frame("parsePrecedence") EXCEPT !.prec = Prec.OR])
       ELSE Ret(patchJump(m, f.a))

or_ == At("or_") /\ Commit(or_Step(M))

(* call with argumentList inlined.  Frame fields: a is argCount, flag is    *)
(* unpack.                                                                  *)
callArgument(m, f) ==
  LET m1 == IF f.flag
              THEN errorAtCurrent(m, "Value unpacking must be the last argument.")
              ELSE m
      unpack == f.flag \/ check(m1, "DOT_DOT_DOT")
  IN Call(match(m1, "DOT_DOT_DOT"), [f EXCEPT !.pc = 1, !.flag = unpack], expressionFrame)

callEnd(m, f) ==
  LET m1 == consume(m, "RIGHT_PAREN", "Expect ')' after arguments.")
  IN Ret(emitByte(emitBytes(m1, Op("CALL"), f.a), IF f.flag THEN 1 ELSE 0))

callStep(m) ==
  LET f == Top(m)
      g == [f EXCEPT !.a = @ + 1]
      m1 == IF g.a > 255 THEN error(m, "Cannot have more than 255 arguments.") ELSE m
  IN IF f.pc = 0
       THEN LET f0 == [f EXCEPT !.a = 0, !.b = 0, !.flag = FALSE]
            IN IF ~check(m, "RIGHT_PAREN") THEN callArgument(m, f0) ELSE callEnd(m, f0)
     ELSE IF check(m1, "COMMA")
       THEN callArgument(match(m1, "COMMA"), g)
     ELSE callEnd(m1, g)

call == At("call") /\ Commit(callStep(M))

-----------------------------------------------------------------------------
(* Loops.  comps[ci].loops is the chain compiler->loop, innermost last.     *)

ZeroArgOps ==
  {"NIL", "TRUE", "FALSE", "POP", "EQUAL", "GREATER", "LESS", "ADD", "MULTIPLY",
   "NOT", "POW", "MOD", "NEGATE", "CLOSE_UPVALUE", "RETURN", "EMPTY", "END_CLASS",
   "IMPORT_VARIABLE", "IMPORT_END", "BREAK", "BITWISE_AND", "BITWISE_XOR",
   "BITWISE_OR", "POP_REPL"}

TwoArgOps ==
  {"CONSTANT", "GET_LOCAL", "SET_LOCAL", "GET_GLOBAL", "GET_MODULE",
   "DEFINE_MODULE", "SET_MODULE", "GET_UPVALUE", "SET_UPVALUE", "GET_PROPERTY",
   "SET_CLASS_VAR", "GET_SUPER", "METHOD", "IMPORT", "DEFINE_OPTIONAL", "JUMP",
   "JUMP_IF_FALSE", "LOOP", "CLASS", "CALL"}

ThreeArgOps == {"INVOKE", "SUPER"}

OpsOf(names) == {Op(n) : n \in names}

(* getArgCount; -1 when the switch reads outside the chunk or the pool, or  *)
(* takes a constant that is no function for one.                            *)
getArgCount(m, code, constants, ip) ==
  LET op == Byte(code, ip)
  IN IF op \in OpsOf(ZeroArgOps) THEN 0
     ELSE IF op \in OpsOf(TwoArgOps) THEN 2
     ELSE IF op \in OpsOf(ThreeArgOps) THEN 3
     ELSE IF op = Op("CLOSURE")
       THEN IF ip + 1 >= Len(code) THEN -1
            ELSE LET constant == Byte(code, ip + 1)
                 IN IF constant >= Len(constants) THEN -1
                    ELSE IF constants[constant + 1].k # "fn" THEN -1
                    ELSE 1 + m.fns[constants[constant + 1].n].upvalueCount * 2
     ELSE IF op = Op("IMPORT_FROM")
       THEN IF ip + 1 >= Len(code) THEN -1 ELSE 1 + Byte(code, ip + 1)
     ELSE 0

(* One turn of the while loop of endLoop at offset i: the offset of the     *)
(* next turn; -1 once getArgCount has read outside the chunk or the pool.   *)
endLoopNext(m, i) ==
  LET f == FnOf(m, Cur(m))
      code == m.fns[f].code
      n == getArgCount(m, code, m.fns[f].constants, i)
  IN IF i < 0 \/ i >= Len(code) THEN i
     ELSE IF Byte(code, i) = Op("BREAK") THEN i + 3
     ELSE IF n = -1 THEN -1
     ELSE i + 1 + n

(* The offset after 2^k turns from offset i.  The bytes a turn rewrites lie *)
(* before the offset of the next turn, so the offsets are those of the      *)
(* chunk as it is when the loop starts.                                     *)
RECURSIVE endLoopSkip(_, _, _)
endLoopSkip(m, k, i) ==
  IF k = 0 THEN endLoopNext(m, i)
  ELSE CHOOSE r \in {endLoopSkip(m, k - 1, j) : j \in {endLoopSkip(m, k - 1, i)}} : TRUE

(* The offsets of the first 2^k turns from offset i on.                     *)
RECURSIVE endLoopVisits(_, _, _)
endLoopVisits(m, k, i) ==
  IF i < 0 \/ i >= Count(m) THEN {}
  ELSE IF k = 0 THEN {i}
  ELSE UNION {endLoopVisits(m, k - 1, i) \cup endLoopVisits(m, k - 1, j) :
                j \in {endLoopSkip(m, k - 1, i)}}

(* The while loop of endLoop from offset i: every OP_BREAK it visits        *)
(* becomes OP_JUMP and patchJump writes the distance to the end of the      *)
(* chunk after it, outside the chunk for an OP_BREAK in its last two bytes. *)
endLoopWalk(m, i) ==
  LET f == FnOf(m, Cur(m))
      code == m.fns[f].code
      count == Len(code)
      k == Log2(count + 1)
      breaks == {j \in endLoopVisits(m, k, i) : Byte(code, j) = Op("BREAK")}
      jump(j) == count - j - 3
      patched == [p \in DOMAIN code |->
                    IF p - 1 \in breaks THEN Op("JUMP")
                    ELSE IF p - 2 \in breaks THEN (jump(p - 2) \div 256) % 256
                    ELSE IF p - 3 \in breaks THEN jump(p - 3) % 256
                    ELSE code[p]]
      m1 == [m EXCEPT !.fns[f].code = patched]
      m2 == IF \E j \in breaks : jump(j) > UINT16_MAX
              THEN error(m1, "Too much code to jump over.") ELSE m1
  IN IF endLoopSkip(m, k, i) = -1 \/ \E j \in breaks : j + 2 >= count
       THEN Undefined(m2)
       ELSE m2

CurLoop(m) == LET l == m.comps[Cur(m)].loops IN l[Len(l)]

endLoop(m) ==
  LET loop == CurLoop(m)
      m1 == IF loop.end # -1
              THEN emitByte(patchJump(m, loop.end), Op("POP"))
              ELSE m
      m2 == endLoopWalk(m1, loop.body)
  IN [m2 EXCEPT !.comps[Cur(m)].loops = SubSeq(@, 1, Len(@) - 1)]

pushLoop(m) ==
  [m EXCEPT !.comps[Cur(m)].loops =
              Append(@, [start |-> Count(m), scopeDepth |-> m.comps[Cur(m)].scopeDepth,
                         end |-> -1, body |-> -1])]

setLoop(m, field, value) ==
  LET n == Len(m.comps[Cur(m)].loops)
  IN [m EXCEPT !.comps[Cur(m)].loops[n] = [@ EXCEPT ![field] = value]]

(* The bytes that discard the locals declared inside the loop.              *)
discardLocals(m, i, depth) ==
  LET L == m.comps[Cur(m)].locals
      keep == Max({0} \cup {k \in 1..(i + 1) : L[k].depth <= depth})
      bytes == [j \in 1..(i + 1 - keep) |->
                  IF L[i + 2 - j].isUpvalue THEN Op("CLOSE_UPVALUE") ELSE Op("POP")]
  IN [m EXCEPT !.fns[FnOf(m, Cur(m))].code = @ \o bytes]

breakStatementStep(m) ==
  LET c == m.comps[Cur(m)]
      m1 == consume(m, "SEMICOLON", "Expected semicolon after break")
  IN IF c.loops = <<>>
       THEN Ret(error(m, "Cannot utilise 'break' outside of a loop."))
       ELSE Ret(emitJump(discardLocals(m1, Len(c.locals) - 1, CurLoop(m).scopeDepth),
                         Op("BREAK")))

breakStatement == At("breakStatement") /\ Commit(breakStatementStep(M))

(* Outside a loop continueStatement goes on after the error and reads       *)
(* compiler->loop->scopeDepth through the null pointer.                     *)
continueStatementStep(m) ==
  LET c == m.comps[Cur(m)]
      m1 == consume(m, "SEMICOLON", "Expect ';' after 'continue'.")
      m2 == discardLocals(m1, Len(c.locals) - 1, CurLoop(m).scopeDepth)
  IN IF c.loops = <<>>
       THEN Crash(consume(error(m, "Cannot utilise 'continue' outside of a loop."),
                          "SEMICOLON", "Expect ';' after 'continue'."))
       ELSE Ret(emitLoop(m2, CurLoop(m).start))

continueStatement == At("continueStatement") /\ Commit(continueStatementStep(M))

whileStatementStep(m) ==
  LET f == Top(m)
      body(x) == LET x1 == emitJump(x, Op("JUMP_IF_FALSE"))
                     x2 == emitByte(setLoop(x1, "end", Count(x1) - 2), Op("POP"))
                 IN Call(setLoop(x2, "body", Count(x2)), [f EXCEPT !.pc = 2],
                         Frame("statement"))
      m0 == pushLoop(m)
  IN IF f.pc = 0
       THEN IF check(m0, "LEFT_BRACE")
              THEN body(emitByte(m0, Op("TRUE")))
              ELSE Call(consume(m0, "LEFT_PAREN", "Expect '(' after 'while'."),
                        [f EXCEPT !.pc = 1], expressionFrame)
     ELSE IF f.pc = 1
       THEN body(consume(m, "RIGHT_PAREN", "Expect ')' after condition."))
     ELSE Ret(endLoop(emitLoop(m, CurLoop(m).start)))

whileStatement == At("whileStatement") /\ Commit(whileStatementStep(M))

-----------------------------------------------------------------------------
(* Statements.                                                              *)

(* forStatement from the body on.                                           *)
forBody(m, f) ==
  Call(setLoop(m, "body", Count(m)), [f EXCEPT !.pc = 4], Frame("statement"))

(* forStatement from the increment clause on.                               *)
forIncrement(m, f) ==
  LET m1 == emitJump(m, Op("JUMP"))
  IN IF ~check(m, "RIGHT_PAREN")
       THEN Call(m1, [f EXCEPT !.pc = 3, !.a = Count(m1) - 2, !.b = Count(m1)],
                 expressionFrame)
       ELSE forBody(match(m, "RIGHT_PAREN"), f)

(* forStatement from the creation of the Loop on.                           *)
forCondition(m, f) ==
  LET m1 == pushLoop(m)
  IN IF ~check(m1, "SEMICOLON")
       THEN Call(m1, [f EXCEPT !.pc = 2], expressionFrame)
       ELSE forIncrement(match(m1, "SEMICOLON"), f)

forStatementStep(m) ==
  LET f == Top(m)
      m0 == consume(beginScope(m), "LEFT_PAREN", "Expect '(' after 'for'.")
      c1 == consume(m, "SEMICOLON", "Expect ';' after loop condition.")
      c2 == emitJump(c1, Op("JUMP_IF_FALSE"))
      i1 == consume(emitByte(m, Op("POP")), "RIGHT_PAREN", "Expect ')' after for clauses.")
      i2 == setLoop(emitLoop(i1, CurLoop(i1).start), "start", f.b)
  IN IF f.pc = 0
       THEN IF check(m0, "VAR")
              THEN Call(match(m0, "VAR"), [f EXCEPT !.pc = 1], Frame("varDeclaration"))
            ELSE IF check(m0, "SEMICOLON")
              THEN forCondition(match(m0, "SEMICOLON"), f)
            ELSE Call(m0, [f EXCEPT !.pc = 1], Frame("expressionStatement"))
     ELSE IF f.pc = 1 THEN forCondition(m, f)
     ELSE IF f.pc = 2
       THEN forIncrement(emitByte(setLoop(c2, "end", Count(c2) - 2), Op("POP")), f)
     ELSE IF f.pc = 3 THEN forBody(patchJump(i2, f.a), f)
     ELSE Ret(endScope(endLoop(emitLoop(m, CurLoop(m).start))))

forStatement == At("forStatement") /\ Commit(forStatementStep(M))

ifStatementStep(m) ==
  LET f == Top(m)
      m1 == emitJump(consume(m, "RIGHT_PAREN", "Expect ')' after condition."),
                     Op("JUMP_IF_FALSE"))
      e1 == emitJump(m, Op("JUMP"))
      e2 == emitByte(patchJump(e1, f.a), Op("POP"))
      endJump == Count(e1) - 2
  IN IF f.pc = 0
       THEN Call(consume(m, "LEFT_PAREN", "Expect '(' after 'if'."),
                 [f EXCEPT !.pc = 1], expressionFrame)
     ELSE IF f.pc = 1
       THEN Call(emitByte(m1, Op("POP")), [f EXCEPT !.pc = 2, !.a = Count(m1) - 2],
                 Frame("statement"))
     ELSE IF f.pc = 2
       THEN IF check(e2, "ELSE")
              THEN Call(match(e2, "ELSE"), [f EXCEPT !.pc = 3, !.b = endJump],
                        Frame("statement"))
              ELSE Ret(patchJump(e2, endJump))
     ELSE Ret(patchJump(m, f.b))

ifStatement == At("ifStatement") /\ Commit(ifStatementStep(M))

returnStatementStep(m) ==
  LET f == Top(m)
      type == m.comps[Cur(m)].type
      m1 == IF type = "TOP_LEVEL"
              THEN error(m, "Cannot return from top-level code.") ELSE m
      m2 == IF type = "INITIALIZER"
              THEN error(m1, "Cannot return a value from an initializer.") ELSE m1
  IN IF f.pc = 0
       THEN IF check(m1, "SEMICOLON")
              THEN Ret(emitReturn(match(m1, "SEMICOLON")))
              ELSE Call(m2, [f EXCEPT !.pc = 1], expressionFrame)
       ELSE Ret(emitByte(consume(m, "SEMICOLON", "Expect ';' after return value."),
                         Op("RETURN")))

returnStatement == At("returnStatement") /\ Commit(returnStatementStep(M))

StatementOf ==
  ("FOR" :> "forStatement") @@ ("IF" :> "ifStatement") @@
  ("RETURN" :> "returnStatement") @@ ("BREAK" :> "breakStatement") @@
  ("WHILE" :> "whileStatement") @@ ("CONTINUE" :> "continueStatement")

(* statement; the inputs hold no import and no from statement.              *)
statementStep(m) ==
  LET f == Top(m)
      t == m.parser.current.type
      m1 == advance(m)
  IN IF f.pc = 1 THEN Ret(endScope(m))
     ELSE IF t \in DOMAIN StatementOf THEN TailCall(m1, Frame(StatementOf[t]))
     ELSE IF t = "LEFT_BRACE"
       THEN Call(beginScope(peek(m1)), [f EXCEPT !.pc = 1], Frame("block"))
     ELSE TailCall(m, Frame("expressionStatement"))

statement == At("statement") /\ Commit(statementStep(M))

blockStep(m) ==
  LET f == Top(m)
  IN IF ~check(m, "RIGHT_BRACE") /\ ~check(m, "EOF")
       THEN Call(m, f, Frame("declaration"))
       ELSE Ret(consume(m, "RIGHT_BRACE", "Expect '}' after block."))

block == At("block") /\ Commit(blockStep(M))

(* varDeclaration(compiler, false).  Frame field a is global.               *)
varDeclarationStep(m) ==
  LET f == Top(m)
      global == parseVariableIndex(m, "Expect variable name.")
      m1 == parseVariable(m, "Expect variable name.")
      after(x, g) ==
        LET x1 == defineVariable(x, g, FALSE)
        IN IF check(x1, "COMMA")
             THEN Resume(match(x1, "COMMA"), [f EXCEPT !.pc = 0])
             ELSE Ret(consume(x1, "SEMICOLON", "Expect ';' after variable declaration."))
  IN IF f.pc = 0
       THEN IF check(m1, "EQUAL")
              THEN Call(match(m1, "EQUAL"), [f EXCEPT !.pc = 1, !.a = global],
                        expressionFrame)
              ELSE after(emitByte(m1, Op("NIL")), global)
       ELSE after(m, f.a)

varDeclaration == At("varDeclaration") /\ Commit(varDeclarationStep(M))

-----------------------------------------------------------------------------
(* Functions.                                                               *)

(* function(compiler, TYPE_FUNCTION) with beginFunction inlined.  Frame     *)
(* fields: flag is isSpreadParam, a is optional.                            *)
functionBody(m, f) ==
  LET fn == m.fns[FnOf(m, Cur(m))]
      m1 == IF fn.arityOptional > 0
              THEN emitBytes(emitByte(m, Op("DEFINE_OPTIONAL")), fn.arity, fn.arityOptional)
              ELSE m
      m2 == consume(m1, "RIGHT_PAREN", "Expect ')' after parameters.")
  IN Call(consume(m2, "LEFT_BRACE", "Expect '{' before function body."),
          [f EXCEPT !.pc = 3], Frame("block"))

(* The end of one turn of the parameter loop.                               *)
functionNextParam(m, f) ==
  LET fn == m.fns[FnOf(m, Cur(m))]
      m1 == IF fn.arity + fn.arityOptional > 255
              THEN error(m, "Cannot have more than 255 parameters.") ELSE m
  IN IF check(m1, "COMMA")
       THEN Resume(match(m1, "COMMA"), [f EXCEPT !.pc = 1])
       ELSE functionBody(m1, [f EXCEPT !.pc = 1])

(* One turn of the parameter loop, from the test of `=` on.                 *)
functionParamDefault(m, f, isSpreadParam) ==
  LET fi == FnOf(m, Cur(m))
      g == [f EXCEPT !.flag = isSpreadParam]
      variadic == IF isSpreadParam THEN [m EXCEPT !.fns[fi].isVariadic = TRUE] ELSE m
      required == [variadic EXCEPT !.fns[fi].arity = @ + 1]
      optional == [match(variadic, "EQUAL") EXCEPT !.fns[fi].arityOptional = @ + 1]
  IN IF check(m, "EQUAL")
       THEN Call(IF isSpreadParam
                   THEN error(optional, "spread parameter cannot have an optional value")
                   ELSE optional,
                 [g EXCEPT !.pc = 2, !.a = 1], expressionFrame)
       ELSE functionNextParam(
              IF f.a = 1
                THEN error(required, "Cannot have non-optional parameter after optional.")
                ELSE required, g)

(* One turn of the parameter loop, from identifierConstant on.              *)
functionParamDeclare(m, f, varKeyword, isSpreadParam) ==
  LET name == m.parser.previous.lex
      declared == defineVariable(declareVariable(identifierConstant(m, name), name),
                                 identifierConstantIndex(m, name), FALSE)
      type == m.comps[Cur(m)].type
      m1 == IF varKeyword /\ type # "INITIALIZER"
              THEN error(declared, "var keyword in a function definition that is not a class constructor")
              ELSE declared
  IN functionParamDefault(
       IF isSpreadParam /\ type = "INITIALIZER"
         THEN error(m1, "spread parameter cannot be used in a class constructor")
         ELSE m1,
       f, isSpreadParam)

functionParamName(m, f, varKeyword) ==
  functionParamDeclare(
    consume(match(m, "DOT_DOT_DOT"), "IDENTIFIER", "Expect parameter name."),
    f, varKeyword, check(m, "DOT_DOT_DOT"))

functionParamVar(m, f) == functionParamName(match(m, "VAR"), f, check(m, "VAR"))

functionParam(m, f) ==
  functionParamVar(IF f.flag
                     THEN error(m, "spread parameter must be last in the parameter list")
                     ELSE m, f)

(* function as it would be if it ended the scope of the body before         *)
(* endCompiler.                                                             *)
functionStepEndsScope(m) ==
  LET f == Top(m)
      m0 == consume(beginScope(initCompiler(m, f.op)),
                    "LEFT_PAREN", "Expect '(' after function name.")
  IN IF f.pc = 0
       THEN IF ~check(m0, "RIGHT_PAREN")
              THEN functionParam(m0, f)
              ELSE functionBody(m0, f)
     ELSE IF f.pc = 1 THEN functionParam(m, f)
     ELSE IF f.pc = 2 THEN functionNextParam(m, f)
     ELSE Ret(endCompiler(endScope(m)))

functionStep(m) ==
  LET f == Top(m)
      m0 == consume(beginScope(initCompiler(m, f.op)),
                    "LEFT_PAREN", "Expect '(' after function name.")
  IN IF f.pc = 0
       THEN IF ~check(m0, "RIGHT_PAREN")
              THEN functionParam(m0, f)
              ELSE functionBody(m0, f)
     ELSE IF f.pc = 1 THEN functionParam(m, f)
     ELSE IF f.pc = 2 THEN functionNextParam(m, f)
     ELSE Ret(endCompiler(m))

function == At("function") /\ Commit(functionStep(M))

(* funDeclaration.  Frame field a is global.                                *)
funDeclarationStep(m) ==
  LET f == Top(m)
  IN IF f.pc = 0
       THEN Call(parseVariable(m, "Expect function name."),
                 [f EXCEPT !.pc = 1, !.a = parseVariableIndex(m, "Expect function name.")],
                 [Frame("function") EXCEPT !.op = "FUNCTION"])
       ELSE Ret(defineVariable(m, f.a, FALSE))

funDeclaration == At("funDeclaration") /\ Commit(funDeclarationStep(M))

(* method.  Frame field a is constant; the function type goes to function   *)
(* in field op of its frame.                                                *)
methodStep(m) ==
  LET f == Top(m)
      m1 == [m EXCEPT !.comps[Cur(m)].class[Len(m.comps[Cur(m)].class)].staticMethod = FALSE]
      m2 == consume(m1, "IDENTIFIER", "Expect method name.")
      type == IF m2.parser.previous.lex = "init" THEN "INITIALIZER" ELSE "METHOD"
  IN IF f.pc = 0
       THEN Call(identifierConstant(m2, m2.parser.previous.lex),
                 [f EXCEPT !.pc = 1,
                           !.a = identifierConstantIndex(m2, m2.parser.previous.lex)],
                 [Frame("function") EXCEPT !.op = type])
       ELSE Ret(emitBytes(m, Op("METHOD"), f.a))

method == At("method") /\ Commit(methodStep(M))

(* parseClassBody.  Frame field a is name.                                  *)
parseClassBodyStep(m) ==
  LET f == Top(m)
      m1 == consume(match(m, "VAR"), "IDENTIFIER", "Expect class variable name.")
      name == identifierConstantIndex(m1, m1.parser.previous.lex)
      m2 == consume(identifierConstant(m1, m1.parser.previous.lex),
                    "EQUAL", "Expect '=' after class variable identifier.")
  IN IF f.pc = 1
       THEN Resume(consume(emitByte(emitBytes(m, Op("SET_CLASS_VAR"), f.a), 0),
                           "SEMICOLON", "Expect ';' after class variable declaration."),
                   [f EXCEPT !.pc = 0])
     ELSE IF check(m, "RIGHT_BRACE") \/ check(m, "EOF") THEN Ret(m)
     ELSE IF check(m, "VAR")
       THEN Call(m2, [f EXCEPT !.pc = 1, !.a = name], expressionFrame)
     ELSE Call(m, f, Frame("method"))

parseClassBody == At("parseClassBody") /\ Commit(parseClassBodyStep(M))

syntheticToken(text) == text

CLASS_DEFAULT == 0

setupClassCompiler(m, abstract) ==
  [m EXCEPT !.comps[Cur(m)].class =
              Append(@, [name |-> m.parser.previous.lex, hasSuperclass |-> FALSE,
                         staticMethod |-> FALSE, abstractClass |-> abstract])]

(* endClassCompiler as it would be if it left compiler->class alone.        *)
endClassCompilerKeepsClass(m) == m

(* endClassCompiler: compiler->class = compiler->class->enclosing.          *)
endClassCompiler(m) ==
  [m EXCEPT !.comps[Cur(m)].class = SubSeq(@, 1, Len(@) - 1)]

(* classDeclaration from the opcode of the class to the call of             *)
(* parseClassBody.                                                          *)
classDeclarationBody(m, f, op) ==
  Call(consume(emitByte(emitBytes(m, op, CLASS_DEFAULT), f.a),
               "LEFT_BRACE", "Expect '{' before class body."),
       [f EXCEPT !.pc = 2], Frame("parseClassBody"))

(* classDeclaration.  Frame field a is nameConstant, field tok the name of  *)
(* its classCompiler.                                                       *)
classDeclarationStep(m) ==
  LET f == Top(m)
      c == m.comps[Cur(m)]
      m1 == consume(m, "IDENTIFIER", "Expect class name.")
      name == m1.parser.previous.lex
      m2 == setupClassCompiler(declareVariable(identifierConstant(m1, name), name), FALSE)
      g == [f EXCEPT !.a = identifierConstantIndex(m1, name), !.tok = m1.parser.previous]
      m3 == consume(m, "RIGHT_BRACE", "Expect '}' after class body.")
      m4 == IF c.class[Len(c.class)].hasSuperclass
              THEN emitByte(endScope(m3), Op("END_CLASS")) ELSE m3
  IN IF f.pc = 0
       THEN IF check(m2, "LESS")
              THEN Call(match(m2, "LESS"), [g EXCEPT !.pc = 1], expressionFrame)
              ELSE classDeclarationBody(m2, g, Op("CLASS"))
     ELSE IF f.pc = 1
       THEN classDeclarationBody(
              addLocal(beginScope([m EXCEPT !.comps[Cur(m)].class[Len(c.class)].hasSuperclass = TRUE]),
                       syntheticToken("super")),
              f, Op("SUBCLASS"))
     ELSE Ret(defineVariable(endClassCompiler(m4), f.a, FALSE))

classDeclaration == At("classDeclaration") /\ Commit(classDeclarationStep(M))

-----------------------------------------------------------------------------

Next ==
  \/ compile
  \/ classDeclaration
  \/ parseClassBody
  \/ method
  \/ declaration
  \/ statement
  \/ block
  \/ expressionStatement
  \/ varDeclaration
  \/ funDeclaration
  \/ function
  \/ forStatement
  \/ whileStatement
  \/ ifStatement
  \/ returnStatement
  \/ breakStatement
  \/ continueStatement
  \/ parsePrecedence
  \/ namedVariable
  \/ grouping
  \/ unary
  \/ binary
  \/ and_
  \/ or_
  \/ call

Spec == Init /\ [][Next]_vars

FairSpec == Spec /\ WF_vars(Next)

-----------------------------------------------------------------------------
(* Reading a chunk back: the operand bytes the emitters write after each    *)
(* opcode (emitConstant, namedVariable, defineVariable, emitJump, emitLoop, *)
(* call, beginFunction, endCompiler), and the instruction starts they give. *)

OneOperandOps ==
  {"CONSTANT", "GET_LOCAL", "SET_LOCAL", "GET_GLOBAL", "GET_MODULE",
   "DEFINE_MODULE", "SET_MODULE", "GET_UPVALUE", "SET_UPVALUE", "METHOD"}

TwoOperandOps ==
  {"JUMP", "JUMP_IF_FALSE", "LOOP", "BREAK", "CALL", "DEFINE_OPTIONAL",
   "SET_CLASS_VAR", "CLASS", "SUBCLASS"}

PoolOperandOps ==
  {"CONSTANT", "GET_GLOBAL", "GET_MODULE", "DEFINE_MODULE", "SET_MODULE", "CLOSURE"}

OperandBytes(heap, f, i) ==
  LET code == heap[f].code
      values == heap[f].constants
      op == Byte(code, i)
  IN IF op \in OpsOf(OneOperandOps) THEN 1
     ELSE IF op \in OpsOf(TwoOperandOps) THEN 2
     ELSE IF op = Op("CLOSURE")
       THEN IF i + 1 < Len(code) /\ Byte(code, i + 1) < Len(values)
                 /\ values[Byte(code, i + 1) + 1].k = "fn"
              THEN 1 + 2 * heap[values[Byte(code, i + 1) + 1].n].upvalueCount
              ELSE 1
     ELSE 0

(* The offset of the instruction that follows the one at offset i.          *)
NextStart(heap, f, i) ==
  IF i >= Len(heap[f].code) THEN i ELSE i + 1 + OperandBytes(heap, f, i)

(* The offset reached from i after 2^k instructions.                        *)
RECURSIVE SkipInstructions(_, _, _, _)
SkipInstructions(heap, f, k, i) ==
  IF k = 0 THEN NextStart(heap, f, i)
  ELSE CHOOSE r \in {SkipInstructions(heap, f, k - 1, j) :
                       j \in {SkipInstructions(heap, f, k - 1, i)}} : TRUE

(* The starts of the first 2^k instructions from offset i on.               *)
RECURSIVE StartsWithin(_, _, _, _)
StartsWithin(heap, f, k, i) ==
  IF i >= Len(heap[f].code) THEN {}
  ELSE IF k = 0 THEN {i}
  ELSE UNION {StartsWithin(heap, f, k - 1, i) \cup StartsWithin(heap, f, k - 1, j) :
                j \in {SkipInstructions(heap, f, k - 1, i)}}

(* The offsets in heap[f].code, from offset i on, at which an instruction   *)
(* starts.                                                                  *)
InstructionStarts(heap, f, i) ==
  StartsWithin(heap, f, Log2(Len(heap[f].code)), i)

Starts(f) == InstructionStarts(fns, f, 0)

Operand16(code, i) == Byte(code, i + 1) * 256 + Byte(code, i + 2)

Returned == result \in {"NULL", "function"}

Logged(message) == \E i \in DOMAIN log : log[i] = message

-----------------------------------------------------------------------------
(* C1: when compile returns, it returns the null sentinel exactly if an     *)
(* error was recorded during the run, and the top-level function otherwise; *)
(* hadError is set exactly when an error has been recorded and is never     *)
(* cleared.                                                                 *)
C1_NullIffErrorRecorded ==
  /\ [](parser.hadError <=> log # <<>>)
  /\ [](Returned => (result = "NULL" <=> parser.hadError))
  /\ [][parser.hadError => parser'.hadError]_vars

C1_Witness == result = "NULL" /\ parser.hadError /\ Len(log) >= 2

-----------------------------------------------------------------------------
(* endLoop runs in the last step of whileStatement and of forStatement.     *)
EndLoopRuns ==
  \/ At("whileStatement") /\ stack[Len(stack)].pc = 2
  \/ At("forStatement") /\ stack[Len(stack)].pc = 4

(* C2: once endLoop of a loop has run, no instruction from loop.body to the *)
(* end of the chunk is an OP_BREAK.                                         *)
C2_NoBreakAfterEndLoop ==
  [][EndLoopRuns =>
       \A i \in InstructionStarts(fns', FnOf(M, Cur(M)), CurLoop(M).body) :
         Byte(fns'[FnOf(M, Cur(M))].code, i) # Op("BREAK")]_vars

-----------------------------------------------------------------------------
(* The jumps of a chunk whose operand was written by emitJump.              *)
ForwardJumps(f) ==
  {i \in Starts(f) :
     Byte(fns[f].code, i) \in OpsOf({"JUMP", "JUMP_IF_FALSE", "BREAK"})}

JumpLands(f, i) ==
  /\ Byte(fns[f].code, i) # Op("BREAK")
  /\ Operand16(fns[f].code, i) # UINT16_MAX
  /\ i + 3 + Operand16(fns[f].code, i) \in Starts(f)

(* C3: in the chunks of an error-free compilation every placeholder of      *)
(* emitJump has been patched, and every forward jump lands on the start of  *)
(* an instruction of the chunk.                                             *)
C3_JumpsPatchedAndLand ==
  result = "function" =>
    \A f \in DOMAIN fns : \A i \in ForwardJumps(f) : JumpLands(f, i)

-----------------------------------------------------------------------------
(* binary is in its last step: the right operand has been compiled, the     *)
(* fold is attempted and the operator emitted; the process survives it.     *)
BinaryReturns == At("binary") /\ stack[Len(stack)].pc = 1 /\ result' = "running"

(* The bytes from..to-1 of a chunk are one OP_CONSTANT instruction.         *)
IsConstantInstruction(code, from, to) ==
  to - from = 2 /\ Byte(code, from) = Op("CONSTANT")

FoldableOperators == {"PLUS", "MINUS", "STAR", "SLASH"}

(* C4: binary drops the trailing OP_CONSTANT and shrinks the pool only when *)
(* the operator is one of + - * / and the code of its left operand and the  *)
(* code of its right operand are one OP_CONSTANT instruction each; in every *)
(* other case the chunk and the pool are kept and the operator's opcode is  *)
(* appended.                                                                *)
C4_FoldsOnlyItsConstantOperands ==
  [][BinaryReturns =>
       LET f == stack[Len(stack)]
           before == fns[FnOf(M, Cur(M))]
           after == fns'[FnOf(M, Cur(M))]
       IN IF Len(after.code) < Len(before.code) \/ after.constants # before.constants
            THEN /\ f.op \in FoldableOperators
                 /\ IsConstantInstruction(before.code, f.a, f.b)
                 /\ IsConstantInstruction(before.code, f.b, Len(before.code))
                 /\ after.code = SubSeq(before.code, 1, f.b)
                 /\ Len(after.constants) = Len(before.constants) - 1
            ELSE after.code = before.code \o BinaryBytes(f.op)]_vars

-----------------------------------------------------------------------------
(* The code of the single expression statement of a program: the top-level  *)
(* chunk without the OP_POP of the statement and the OP_NIL, OP_RETURN of   *)
(* emitReturn.                                                              *)
ExpressionCode == SubSeq(fns[1].code, 1, Len(fns[1].code) - 3)

OneConstant(n) ==
  /\ ExpressionCode = <<Op("CONSTANT"), 0>>
  /\ fns[1].constants = <<NUMBER_VAL(n)>>

(* C5: each of 1+2*3, 1+2+3, -(-5) and not true compiles to one             *)
(* value-producing instruction: OP_CONSTANT of 7, of 6, of 5, and OP_FALSE. *)
C5_FoldedExpressions ==
  result = "function" =>
    /\ src = <<"1", "+", "2", "*", "3", ";">> => OneConstant(7)
    /\ src = <<"1", "+", "2", "+", "3", ";">> => OneConstant(6)
    /\ src = <<"-", "(", "-", "5", ")", ";">> => OneConstant(5)
    /\ src = <<"not", "true", ";">> => ExpressionCode = <<Op("FALSE")>>

-----------------------------------------------------------------------------
ConstantMessage == "Cannot assign to a constant."

(* The target (setOp, arg) of an assignment compiled by compiler ci is      *)
(* constant in the state m.                                                 *)
TargetIsConstant(m, ci, setOp, arg) ==
  \/ /\ setOp = Op("SET_LOCAL")
     /\ m.comps[ci].locals[arg + 1].constant
  \/ /\ setOp = Op("SET_UPVALUE")
     /\ m.comps[ci].upvalues[arg + 1].constant
  \/ /\ setOp = Op("SET_MODULE")
     /\ arg < Len(m.fns[FnOf(m, ci)].constants)
     /\ m.fns[FnOf(m, ci)].constants[arg + 1].s \in m.vmConstants

(* namedVariable is in the step that emits the set opcode of an assignment. *)
EmitsSet ==
  At("namedVariable") /\ stack[Len(stack)].pc \in {1, 2} /\ result' = "running"

(* namedVariable is in the step that matches `=` or a compound operator and *)
(* calls checkConst.                                                        *)
ChecksConst ==
  /\ At("namedVariable") /\ stack[Len(stack)].pc = 0
  /\ Len(stack') = Len(stack) + 1

EmitsSetOfConstant ==
  /\ EmitsSet
  /\ TargetIsConstant(M, Cur(M), stack[Len(stack)].b, stack[Len(stack)].a)

(* The const flag of every upvalue is the flag of the local or upvalue of   *)
(* the enclosing function it refers to.                                     *)
UpvalueFlagsFollowOrigin ==
  \A ci \in 2..Len(comps) : \A u \in DOMAIN comps[ci].upvalues :
    LET up == comps[ci].upvalues[u]
    IN up.constant = IF up.isLocal
                       THEN comps[ci - 1].locals[up.index + 1].constant
                       ELSE comps[ci - 1].upvalues[up.index + 1].constant

-----------------------------------------------------------------------------
TargetMessage == "Invalid assignment target."

(* The locals of compiler ci that carry a name.                             *)
LocalsNamed(ci, name) ==
  {i \in DOMAIN comps[ci].locals : comps[ci].locals[i].name = name}

(* How a name is to be resolved in the current function: as its local, as   *)
(* a variable of an enclosing function, as a VM global, as a module         *)
(* variable.                                                                *)
KindOf(name) ==
  IF LocalsNamed(Len(comps), name) # {} THEN "LOCAL"
  ELSE IF \E ci \in 1..(Len(comps) - 1) : LocalsNamed(ci, name) # {} THEN "UPVALUE"
  ELSE IF name \in VmGlobals THEN "GLOBAL"
  ELSE "MODULE"

(* The operand the opcode of that kind takes for the name, in the next      *)
(* state.                                                                   *)
OperandNames(kind, name, arg) ==
  CASE kind = "LOCAL" -> arg + 1 = Max(LocalsNamed(Len(comps), name))
    [] kind = "UPVALUE" -> arg < Len(comps'[Len(comps)].upvalues)
    [] OTHER -> /\ arg < Len(fns'[FnOf(M, Cur(M))].constants)
                /\ fns'[FnOf(M, Cur(M))].constants[arg + 1] = STRING_VAL(name)

(* namedVariable is in the step that emits the get opcode of a plain read.  *)
ReadsName ==
  /\ At("namedVariable") /\ stack[Len(stack)].pc = 0
  /\ Len(stack') = Len(stack) - 1

(* The last two bytes of the current chunk in the next state.               *)
Emitted(op, arg) ==
  LET code == fns'[FnOf(M, Cur(M))].code
  IN /\ Len(code) >= 2
     /\ code[Len(code) - 1] = op
     /\ code[Len(code)] = arg

ResolvesInOrder ==
  /\ [][ReadsName =>
          LET name == stack[Len(stack)].tok.lex
              code == fns'[FnOf(M, Cur(M))].code
          IN /\ Emitted(Op("GET_" \o KindOf(name)), code[Len(code)])
             /\ OperandNames(KindOf(name), name, code[Len(code)])]_vars
  /\ [][ChecksConst =>
          LET name == stack[Len(stack)].tok.lex
              resume == stack'[Len(stack)]
          IN /\ KindOf(name) # "GLOBAL"
             /\ resume.b = Op("SET_" \o KindOf(name))
             /\ OperandNames(KindOf(name), name, resume.a)]_vars
  /\ [][EmitsSet => Emitted(stack[Len(stack)].b, stack[Len(stack)].a)]_vars

(* parsePrecedence has compiled a name that resolves as a VM global and     *)
(* finds `=` after it where an assignment would be allowed.                 *)
AssignsGlobal ==
  /\ At("parsePrecedence") /\ stack[Len(stack)].pc = 1
  /\ stack[Len(stack)].canAssign
  /\ parser.previous.type = "IDENTIFIER" /\ KindOf(parser.previous.lex) = "GLOBAL"
  /\ parser.current.type = "EQUAL"

(* C7 as claimed: a name resolves as local, else upvalue, else VM global,   *)
(* else module variable; no set opcode is emitted for a global, and         *)
(* assigning to one records "Invalid assignment target."                    *)
C7_ResolutionOrderAndGlobalTarget ==
  /\ ResolvesInOrder
  /\ [][AssignsGlobal => Logged(TargetMessage)']_vars

(* C7, amended: the same order; assigning to a global is an error, and      *)
(* "Invalid assignment target." is recorded unless the parser is in panic   *)
(* mode.                                                                    *)
C7_ResolutionOrderAndGlobalError ==
  /\ ResolvesInOrder
  /\ [][AssignsGlobal =>
          /\ parser'.hadError
          /\ \/ parser.panicMode
             \/ log' = Append(log, TargetMessage)]_vars

C7_Witness ==
  /\ Logged(TargetMessage)
  /\ parser.previous.type = "EQUAL"
  /\ pos > 3 /\ src[pos - 3] = "print"
  /\ comps # <<>> /\ KindOf("print") = "GLOBAL"

-----------------------------------------------------------------------------
(* The nearest enclosing function that declares the name, and the slot of   *)
(* its innermost local of that name.                                        *)
Declarer(name) ==
  Max({ci \in 1..(Len(comps) - 1) : LocalsNamed(ci, name) # {}})

SlotOf(name) == Max(LocalsNamed(Declarer(name), name)) - 1

(* The index of the upvalue (isLocal, index) among ups, or -1.              *)
FindUpvalue(ups, isLocal, index) ==
  LET S == {i \in DOMAIN ups : ups[i].isLocal = isLocal /\ ups[i].index = index}
  IN IF S = {} THEN -1 ELSE (CHOOSE i \in S : TRUE) - 1

(* The index of the upvalue through which function j reaches slot s of its  *)
(* ancestor d, along the chain d+1 (isLocal), d+2 .. j (not isLocal); -1 if *)
(* the chain is broken.                                                     *)
RECURSIVE Captured(_, _, _, _)
Captured(cs, d, s, j) ==
  IF j = d + 1 THEN FindUpvalue(cs[j].upvalues, TRUE, s)
  ELSE LET parent == Captured(cs, d, s, j - 1)
       IN IF parent = -1 THEN -1
          ELSE FindUpvalue(cs[j].upvalues, FALSE, parent)

(* namedVariable is in its first step, for a name declared by an ancestor.  *)
UsesUpvalue ==
  /\ At("namedVariable") /\ stack[Len(stack)].pc = 0
  /\ KindOf(stack[Len(stack)].tok.lex) = "UPVALUE"
  /\ result' = "running"

(* The operand namedVariable got from the resolution in that step.          *)
ArgUsed ==
  IF Len(stack') < Len(stack)
    THEN fns'[FnOf(M, Cur(M))].code[Len(fns'[FnOf(M, Cur(M))].code)]
    ELSE stack'[Len(stack)].a

NoDuplicateUpvalues ==
  \A ci \in DOMAIN comps :
    LET ups == comps[ci].upvalues
    IN Cardinality({<<ups[i].isLocal, ups[i].index>> : i \in DOMAIN ups}) = Len(ups)

UpvalueCountIsLength ==
  \A ci \in DOMAIN comps : fns[comps[ci].function].upvalueCount = Len(comps[ci].upvalues)

ClosureMessage == "Too many closure variables in function."

(* Every function from d+1 down to the user either has its upvalue of the   *)
(* chain already or has room for one more.                                  *)
ChainFits(d, s) ==
  \A j \in (d + 1)..Len(comps) :
    Captured(comps, d, s, j) # -1 \/ Len(comps[j].upvalues) < UINT8_COUNT

-----------------------------------------------------------------------------
(* The instructions of chunk f with one of the opcodes.                     *)
InstructionsOf(f, ops) == {i \in Starts(f) : Byte(fns[f].code, i) \in OpsOf(ops)}

UpvalueOperandsInRange(f) ==
  \A i \in InstructionsOf(f, {"GET_UPVALUE", "SET_UPVALUE"}) :
    Byte(fns[f].code, i + 1) < fns[f].upvalueCount

(* Chunk g holds at offset i the OP_CLOSURE of function f, followed by one  *)
(* (isLocal, index) pair for each of the upvalues of f.                     *)
IsClosureOf(g, i, f) ==
  LET code == fns[g].code
      values == fns[g].constants
  IN /\ Byte(code, i) = Op("CLOSURE")
     /\ Byte(code, i + 1) < Len(values)
     /\ values[Byte(code, i + 1) + 1] = FUNCTION_VAL(f)
     /\ i + 2 + 2 * fns[f].upvalueCount < Len(code)
     /\ \A u \in 0..(fns[f].upvalueCount - 1) : Byte(code, i + 2 + 2 * u) \in {0, 1}
     /\ Len(code) - 1 \in Starts(g)

(* function is in its last step, endCompiler, and no error is on record     *)
(* after it.                                                                *)
ClosesFunction ==
  /\ At("function") /\ stack[Len(stack)].pc = 3
  /\ result' = "running" /\ ~parser'.hadError

(* The operand pairs of the upvalues ups, in the order of their indices.    *)
PairsOf(ups) ==
  [i \in 1..(2 * Len(ups)) |->
     IF i % 2 = 1 THEN (IF ups[(i + 1) \div 2].isLocal THEN 1 ELSE 0)
     ELSE ups[i \div 2].index]

(* C9: in an error-free compilation every OP_GET_UPVALUE / OP_SET_UPVALUE   *)
(* operand of a function is below its upvalueCount, upvalueCount is at most *)
(* 256, and the enclosing chunk holds the OP_CLOSURE of the function with   *)
(* exactly upvalueCount (isLocal, index) pairs, written by endCompiler in   *)
(* the order of the upvalue indices.                                        *)
C9_UpvalueOperandsAndClosurePairs ==
  /\ [](result = "function" =>
          \A f \in DOMAIN fns :
            /\ fns[f].upvalueCount <= UINT8_COUNT
            /\ UpvalueOperandsInRange(f)
            /\ f > 1 => \E g \in DOMAIN fns : \E i \in Starts(g) : IsClosureOf(g, i, f))
  /\ [][ClosesFunction =>
          LET ci == Len(comps)
              f == comps[ci].function
              g == comps[ci - 1].function
              added == SubSeq(fns'[g].code, Len(fns[g].code) + 1, Len(fns'[g].code))
          IN /\ Len(added) = 2 + 2 * fns'[f].upvalueCount
             /\ added[1] = Op("CLOSURE")
             /\ added[2] < Len(fns'[g].constants)
             /\ fns'[g].constants[added[2] + 1] = FUNCTION_VAL(f)
             /\ SubSeq(added, 3, Len(added)) = PairsOf(comps[ci].upvalues)]_vars

C9_Witness ==
  /\ result = "function"
  /\ \E f \in DOMAIN fns :
       /\ f > 1 /\ fns[f].upvalueCount >= 2
       /\ \E g \in DOMAIN fns : \E i \in Starts(g) : IsClosureOf(g, i, f)
       /\ \E i \in InstructionsOf(f, {"GET_UPVALUE"}) :
            Byte(fns[f].code, i + 1) = fns[f].upvalueCount - 1

-----------------------------------------------------------------------------
PoolMessage == "Too many constants in one chunk."

PoolOperandsInRange(f) ==
  \A i \in InstructionsOf(f, PoolOperandOps) :
    Byte(fns[f].code, i + 1) < Len(fns[f].constants)

(* A step adds to some chunk a constant whose index exceeds 255.            *)
PoolOverflows ==
  \E f \in DOMAIN fns :
    /\ Len(fns'[f].constants) > Len(fns[f].constants)
    /\ Len(fns'[f].constants) - 1 > UINT8_MAX

(* C10 as claimed: in an error-free compilation every constant-pool operand *)
(* is below the final length of the pool of its chunk, and adding a         *)
(* constant whose index exceeds 255 records "Too many constants in one      *)
(* chunk."                                                                  *)
C10_PoolIndicesAndOverflowMessage ==
  /\ [](result = "function" => \A f \in DOMAIN fns : PoolOperandsInRange(f))
  /\ [][PoolOverflows => Logged(PoolMessage)']_vars

(* C10, with the message taken as errorAt records it: the same bound on the *)
(* operands; adding a constant whose index exceeds 255 is an error          *)
(* (hadError is set), and the message is recorded unless an earlier error   *)
(* has the parser in panic mode.                                            *)
C10_PoolIndicesAndOverflowError ==
  /\ [](result = "function" => \A f \in DOMAIN fns : PoolOperandsInRange(f))
  /\ [][PoolOverflows =>
          /\ parser'.hadError
          /\ Logged(PoolMessage)' \/ (parser'.panicMode /\ log' # <<>>)]_vars

C10_Witness ==
  /\ Logged(PoolMessage)
  /\ \E f \in DOMAIN fns : Len(fns[f].constants) > UINT8_COUNT

-----------------------------------------------------------------------------
(* The chunk of the current function before and after a step.               *)
CodeBefore == fns[FnOf(M, Cur(M))].code
CodeAfter == fns'[FnOf(M, Cur(M))].code

(* After the step the instruction at offset at is an OP_LOOP whose target,  *)
(* the offset after its operand less the operand, is start, at or before    *)
(* the OP_LOOP itself.                                                      *)
LoopWritten(at, start) ==
  /\ 0 <= at /\ at + 3 <= Len(CodeAfter)
  /\ Byte(CodeAfter, at) = Op("LOOP")
  /\ at + 3 - Operand16(CodeAfter, at) = start
  /\ start <= at

(* Every OP_LOOP of the chunks is still in its chunk after the step, with   *)
(* the operand it had.                                                      *)
LoopsKept ==
  \A f \in DOMAIN fns :
    \A i \in {j \in Starts(f) : Byte(fns[f].code, j) = Op("LOOP")} :
      /\ i + 3 <= Len(fns'[f].code)
      /\ SubSeq(fns'[f].code, i + 1, i + 3) = SubSeq(fns[f].code, i + 1, i + 3)

ForIncrementEnds == At("forStatement") /\ stack[Len(stack)].pc = 3
ForBodyEnds == At("forStatement") /\ stack[Len(stack)].pc = 4
WhileBodyEnds == At("whileStatement") /\ stack[Len(stack)].pc = 2
ContinueInLoop == At("continueStatement") /\ comps[Len(comps)].loops # <<>>

(* C11: the OP_LOOP that emitLoop(start) writes at the end of a while body, *)
(* after the increment clause and after the body of a for loop, and for     *)
(* continue, encodes the distance from the end of its operand back to       *)
(* start, start is not after the OP_LOOP, and the OP_LOOP keeps that        *)
(* operand in its chunk.                                                    *)
C11_LoopOffsetsReachStart ==
  [][/\ WhileBodyEnds => LoopWritten(Len(CodeBefore), CurLoop(M).start)
     /\ ForIncrementEnds => LoopWritten(Len(CodeBefore) + 1, CurLoop(M).start)
     /\ ForBodyEnds => LoopWritten(Len(CodeBefore), CurLoop(M).start)
     /\ ContinueInLoop => LoopWritten(Len(CodeAfter) - 3, CurLoop(M).start)
     /\ LoopsKept]_vars

-----------------------------------------------------------------------------
LocalMessage == "Too many local variables in function."

LocalCountInRange ==
  \A ci \in DOMAIN comps :
    1 <= Len(comps[ci].locals) /\ Len(comps[ci].locals) <= UINT8_COUNT

(* The step runs declareVariable in a local scope, hence addLocal, while    *)
(* the current function holds 256 locals: in varDeclaration, in             *)
(* funDeclaration, or for a parameter in function.                          *)
AddLocalAtCapacity ==
  /\ \/ At("varDeclaration") /\ stack[Len(stack)].pc = 0
     \/ At("funDeclaration") /\ stack[Len(stack)].pc = 0
     \/ At("function") /\ stack[Len(stack)].pc = 1
  /\ comps[Len(comps)].scopeDepth > 0
  /\ Len(comps[Len(comps)].locals) = UINT8_COUNT

LocalsUnchanged ==
  /\ Len(comps') >= Len(comps)
  /\ Len(comps'[Len(comps)].locals) = Len(comps[Len(comps)].locals)

-----------------------------------------------------------------------------
InitializerMessage == "Cannot read local variable in its own initializer."

(* namedVariable is in its first step, the one that resolves the name.      *)
ResolvesName == At("namedVariable") /\ stack[Len(stack)].pc = 0

(* The name resolves to a local of the current function that is declared    *)
(* and not yet defined.                                                     *)
UsesUndefinedLocal ==
  /\ ResolvesName
  /\ LET S == LocalsNamed(Len(comps), stack[Len(stack)].tok.lex)
     IN S # {} /\ comps[Len(comps)].locals[Max(S)].depth = -1

(* The name resolves to a local of an enclosing function that is declared   *)
(* and not yet defined.                                                     *)
CapturesUndefinedLocal ==
  /\ ResolvesName
  /\ KindOf(stack[Len(stack)].tok.lex) = "UPVALUE"
  /\ LET name == stack[Len(stack)].tok.lex
     IN comps[Declarer(name)].locals[SlotOf(name) + 1].depth = -1

(* The step writes the message to the log.                                  *)
Records(message) ==
  \E i \in (Len(log) + 1)..Len(log') : log'[i] = message

(* C13 as claimed: a read or an assignment of a local of the current        *)
(* function that is not yet defined records "Cannot read local variable in  *)
(* its own initializer."; a nested function that captures such a local      *)
(* records no such error.                                                   *)
C13_UndefinedLocalRecorded ==
  [][/\ UsesUndefinedLocal => Records(InitializerMessage)
     /\ CapturesUndefinedLocal => ~Records(InitializerMessage)]_vars

(* C13, amended: the use is an error (hadError is set), and the message is  *)
(* recorded unless an earlier error has the parser in panic mode.           *)
C13_UndefinedLocalIsAnError ==
  [][/\ UsesUndefinedLocal =>
          /\ parser'.hadError
          /\ IF parser.panicMode THEN log' = log ELSE Records(InitializerMessage)
     /\ CapturesUndefinedLocal => ~Records(InitializerMessage)]_vars

(* A local has been read in its own initializer.                            *)
C13_Witness ==
  /\ src = <<"{", "var", "a", "=", "a", ";", "}">>
  /\ log = <<InitializerMessage>>
  /\ result = "NULL"

-----------------------------------------------------------------------------
DeclaredMessage == "Variable with this name already declared in this scope."

(* The step runs parseVariable (in varDeclaration or funDeclaration) or     *)
(* declares a parameter whose name is the current token.                    *)
Declares ==
  \/ At("varDeclaration") /\ stack[Len(stack)].pc = 0
  \/ At("funDeclaration") /\ stack[Len(stack)].pc = 0
  \/ At("function") /\ stack[Len(stack)].pc = 1 /\ parser.current.type = "IDENTIFIER"

(* The token declareVariable is given: parser.previous after consume.       *)
DeclaredName == consume(M, "IDENTIFIER", "").parser.previous.lex

(* The parser is in panic mode when declareVariable runs.                   *)
PanicsBeforeDeclare == consume(M, "IDENTIFIER", "").parser.panicMode

(* A local of the current function with that name in the current scope: at  *)
(* the current depth, or not yet defined.                                   *)
DeclaredInScope ==
  \E i \in LocalsNamed(Len(comps), DeclaredName) :
    comps[Len(comps)].locals[i].depth \in {-1, comps[Len(comps)].scopeDepth}

-----------------------------------------------------------------------------
BreakMessage == "Cannot utilise 'break' outside of a loop."

ContinueMessage == "Cannot utilise 'continue' outside of a loop."

(* A break or continue statement is compiled while compiler.loop is null.   *)
BreakOutsideLoop == At("breakStatement") /\ comps[Len(comps)].loops = <<>>

ContinueOutsideLoop == At("continueStatement") /\ comps[Len(comps)].loops = <<>>

(* C15: break or continue with no open loop in the current function records *)
(* its message, emits nothing, reads no loop record (no undefined           *)
(* behaviour), and compilation goes on: the statement returns to its caller *)
(* and the compiler has not died.                                           *)
C15_OutsideLoopReported ==
  [][/\ BreakOutsideLoop => Records(BreakMessage)
     /\ ContinueOutsideLoop => Records(ContinueMessage)
     /\ BreakOutsideLoop \/ ContinueOutsideLoop =>
           /\ fns' = fns
           /\ ~ub'
           /\ result' # "crashed"
           /\ stack' = SubSeq(stack, 1, Len(stack) - 1)]_vars

-----------------------------------------------------------------------------
(* The step is the end of declaration that calls synchronize.               *)
Synchronizes ==
  At("declaration") /\ stack[Len(stack)].pc = 1 /\ parser.panicMode

(* C16: in panic mode errorAt changes nothing and reports nothing; a step   *)
(* reports at most one error, and none while the parser is in panic mode    *)
(* unless the step calls synchronize, after which the parser is in panic    *)
(* mode again if an error was reported: at most one error is reported       *)
(* between two calls of synchronize. panicMode implies hadError always.     *)
C16_OneErrorPerPanic ==
  /\ [](parser.panicMode =>
          /\ parser.hadError
          /\ \A message \in {"Expect expression.", DeclaredMessage} :
                errorAt(M, parser.current, message) = M)
  /\ [][/\ Len(log') <= Len(log) + 1
        /\ SubSeq(log', 1, Len(log)) = log
        /\ Len(log') > Len(log) => parser'.panicMode /\ parser'.hadError
        /\ parser.panicMode /\ ~Synchronizes =>
              /\ log' = log
              /\ parser'.panicMode
              /\ parser'.hadError]_vars

(* Three statements in error: synchronize, skipping the rest of the first,  *)
(* reports a bad character and leaves the parser in panic mode, so that the *)
(* error of the second statement has been suppressed.                       *)
C16_Witness ==
  /\ src = <<"+", "a", "@", ";", "+", ";", "+", ";">>
  /\ log = <<"Expect expression.", "@">>
  /\ parser.panicMode
  /\ pos = 8
  /\ Synchronizes

-----------------------------------------------------------------------------
(* The keywords that begin a declaration or statement.                      *)
SynchronizeKeywords ==
  {"CLASS", "DEF", "VAR", "FOR", "IF", "WHILE", "BREAK", "RETURN", "IMPORT"}

(* The positions in src of the tokens a step skips: those that were current *)
(* at some time during the step and no longer are.                          *)
SkippedTokens ==
  IF parser.current.type = "EOF" THEN {}
  ELSE (pos - 1)..(IF parser'.current.type = "EOF" THEN Len(src) ELSE pos' - 2)

(* C17: synchronize clears panicMode and skips tokens until the previous    *)
(* token is a semicolon, the current token is a keyword that begins a       *)
(* declaration or statement, or EOF is reached: it skips nothing when it    *)
(* starts at such a point and never skips such a keyword.                   *)
C17_SynchronizeStopsAtKeyword ==
  [][Synchronizes =>
       /\ \/ parser'.previous.type = "SEMICOLON"
          \/ parser'.current.type \in SynchronizeKeywords \cup {"EOF"}
       /\ \/ parser.previous.type = "SEMICOLON"
          \/ parser.current.type \in SynchronizeKeywords
          => SkippedTokens = {}
       /\ \A i \in SkippedTokens : Lex(src[i]).type \notin SynchronizeKeywords]_vars

-----------------------------------------------------------------------------
(* C18: a run of compile ends only by returning, after the parser has       *)
(* consumed EOF; the scanner never goes back over a token from one step to  *)
(* the next (the look-ahead of expressionStatement and of the block         *)
(* statement puts it back where it was), and every turn of the loop of      *)
(* synchronize skips a token.                                               *)
C18_CompileReturnsAtEOF ==
  /\ [](stack = <<>> => Returned /\ parser.previous.type = "EOF")
  /\ [][/\ pos' >= pos
        /\ Synchronizes /\ synchronizeSkip([M EXCEPT !.parser.panicMode = FALSE])
              => SkippedTokens # {}]_vars

-----------------------------------------------------------------------------
(* The target of the jump instruction at offset i of code: forward for      *)
(* OP_JUMP and OP_JUMP_IF_FALSE, backward for OP_LOOP.                      *)
JumpTarget(code, i) ==
  IF Byte(code, i) = Op("LOOP") THEN i + 3 - Operand16(code, i)
  ELSE i + 3 + Operand16(code, i)

(* The for statement has an increment clause: forStatement has emitted the  *)
(* jump over it and kept the offset of its operand.                         *)
ForHasIncrement == stack[Len(stack)].a > 0

(* The instructions of the loop body, before the step, with opcode op.      *)
BodyInstructions(op) ==
  {i \in InstructionStarts(fns, FnOf(M, Cur(M)), CurLoop(M).body) :
     Byte(CodeBefore, i) = Op(op)}

(* The offset after the exit code of the loop that ends in this step: after *)
(* the OP_LOOP that closes the body and the OP_POP of the condition.        *)
LoopExitEnd == Len(CodeBefore) + 3 + (IF CurLoop(M).end # -1 THEN 1 ELSE 0)

(* C19: in the chunk of a for loop with an increment clause, the jump       *)
(* emitted before the increment lands on the body, the OP_LOOP after the    *)
(* increment goes back to the condition, the OP_LOOP after the body goes    *)
(* back to the increment, the exit jump of the condition lands on the       *)
(* loop's exit code, every continue of the body is an OP_LOOP that goes     *)
(* back no further than the increment, and every break of the body is an    *)
(* OP_JUMP to the end of the exit code.                                     *)
C19_ForLoopControlFlow ==
  [][/\ ForIncrementEnds =>
          /\ LoopWritten(Len(CodeAfter) - 3, CurLoop(M).start)
          /\ Byte(CodeAfter, stack[Len(stack)].a - 1) = Op("JUMP")
          /\ JumpTarget(CodeAfter, stack[Len(stack)].a - 1) = Len(CodeAfter)
          /\ comps'[Len(comps)].loops[Len(comps[Len(comps)].loops)].start
                = stack[Len(stack)].a + 2
     /\ ForBodyEnds /\ ForHasIncrement =>
          /\ CurLoop(M).start = stack[Len(stack)].a + 2
          /\ LoopWritten(Len(CodeBefore), CurLoop(M).start)
          /\ Byte(CodeAfter, stack[Len(stack)].a - 1) = Op("JUMP")
          /\ JumpTarget(CodeAfter, stack[Len(stack)].a - 1) = CurLoop(M).body
          /\ SubSeq(CodeAfter, CurLoop(M).body - 2, CurLoop(M).body)
                = SubSeq(CodeBefore, CurLoop(M).body - 2, CurLoop(M).body)
          /\ CurLoop(M).end # -1 =>
                /\ Byte(CodeAfter, CurLoop(M).end - 1) = Op("JUMP_IF_FALSE")
                /\ JumpTarget(CodeAfter, CurLoop(M).end - 1) = Len(CodeBefore) + 3
                /\ Byte(CodeAfter, Len(CodeBefore) + 3) = Op("POP")
          /\ \A i \in BodyInstructions("LOOP") :
                /\ SubSeq(CodeAfter, i + 1, i + 3) = SubSeq(CodeBefore, i + 1, i + 3)
                /\ JumpTarget(CodeAfter, i) >= CurLoop(M).start
          /\ \A i \in BodyInstructions("BREAK") :
                /\ Byte(CodeAfter, i) = Op("JUMP")
                /\ JumpTarget(CodeAfter, i) = LoopExitEnd]_vars

-----------------------------------------------------------------------------
(* The depth of the locals declared at the body level of function ci: the   *)
(* scope that beginFunction opens, none for the top level.                  *)
BodyDepth(ci) == IF ci = 1 THEN 0 ELSE 1

(* namedVariable resolves a name that the directly enclosing function, not  *)
(* the top level, declares at its body level, the current function holding  *)
(* no upvalue yet.                                                          *)
CapturesBodyLocal ==
  /\ UsesUpvalue
  /\ Len(comps) >= 3
  /\ Declarer(stack[Len(stack)].tok.lex) = Len(comps) - 1
  /\ comps[Len(comps) - 1].locals[SlotOf(stack[Len(stack)].tok.lex) + 1].depth = 1
  /\ comps[Len(comps)].upvalues = <<>>

(* function is in its last step, endCompiler.                               *)
EndsFunction == At("function") /\ stack[Len(stack)].pc = 3 /\ result' = "running"

(* The function that ends has one upvalue, a body-level local of the        *)
(* function that directly encloses it.                                      *)
EndsCapturingFunction ==
  /\ EndsFunction
  /\ Len(comps) >= 3
  /\ Len(comps[Len(comps)].upvalues) = 1
  /\ comps[Len(comps)].upvalues[1].isLocal
  /\ comps[Len(comps) - 1].locals[comps[Len(comps)].upvalues[1].index + 1].depth = 1

(* The function that ends has a captured local at its body level.           *)
EndsCapturedFunction ==
  /\ EndsFunction
  /\ \E i \in DOMAIN comps[Len(comps)].locals :
        comps[Len(comps)].locals[i].isUpvalue /\ comps[Len(comps)].locals[i].depth = 1

(* The OP_CLOSE_UPVALUE instructions the step appends to the current chunk. *)
AppendedCloses ==
  {i \in InstructionStarts(fns', FnOf(M, Cur(M)), Len(CodeBefore)) :
     Byte(CodeAfter, i) = Op("CLOSE_UPVALUE")}

(* The captured locals of the current function below its body level.        *)
NestedCaptured ==
  {i \in DOMAIN comps[Len(comps)].locals :
     /\ comps[Len(comps)].locals[i].isUpvalue
     /\ comps[Len(comps)].locals[i].depth > BodyDepth(Len(comps))}

(* The use of a body-level local of the directly enclosing function: the    *)
(* operand is upvalue 0, a read emits OP_GET_UPVALUE 0, the function gets   *)
(* the upvalue (isLocal, slot) and the local is flagged; at the end of the  *)
(* function the enclosing chunk gets OP_CLOSURE, the constant, 1, slot.     *)
CaptureOfBodyLocal ==
  /\ CapturesBodyLocal =>
       LET name == stack[Len(stack)].tok.lex
           up == comps'[Len(comps)].upvalues
       IN /\ ArgUsed = 0
          /\ ReadsName => Emitted(Op("GET_UPVALUE"), 0)
          /\ Len(up) = 1 /\ up[1].isLocal /\ up[1].index = SlotOf(name)
          /\ comps'[Len(comps) - 1].locals[SlotOf(name) + 1].isUpvalue
  /\ EndsCapturingFunction =>
       LET code == fns'[comps[Len(comps) - 1].function].code
       IN /\ Len(code) = Len(fns[comps[Len(comps) - 1].function].code) + 4
          /\ code[Len(code) - 3] = Op("CLOSURE")
          /\ code[Len(code) - 1] = 1
          /\ code[Len(code)] = comps[Len(comps)].upvalues[1].index
          /\ comps'[Len(comps) - 1].locals[code[Len(code)] + 1].isUpvalue

-----------------------------------------------------------------------------
(* Raw and ordinary string literals.                                        *)

RawExample == <<"\"hi\\n\"", "+", "r", "\"hi\\n\"", ";">>

(* The bytes of the string constant at pool index i of the script.          *)
BytesOfConstant(i) ==
  CHOOSE b \in DOMAIN TextOf : TextOf[b] = fns[1].constants[i].s

(* C21: the statement "hi\n" + r"hi\n"; compiles without error to two       *)
(* OP_CONSTANTs, of the string of the three bytes h i LF and of the string  *)
(* of the four bytes h i \ n, followed by OP_ADD.                           *)
C21_RawStringAccepted ==
  (src = RawExample /\ Returned) =>
    /\ result = "function"
    /\ ~parser.hadError
    /\ Len(fns[1].constants) = 2
    /\ \A i \in 1..2 : fns[1].constants[i].k = "str"
    /\ BytesOfConstant(1) = <<104, 105, 10>>
    /\ BytesOfConstant(2) = <<104, 105, 92, 110>>
    /\ SubSeq(fns[1].code, 1, 5)
         = <<Op("CONSTANT"), 0, Op("CONSTANT"), 1, Op("ADD")>>

(* What the code does with the statement: the token r has no prefix rule,   *)
(* so the compilation fails with "Expect expression."; the ordinary literal *)
(* before it became the constant of the three bytes h i LF.                 *)
C21_RawStringRejected ==
  (src = RawExample /\ Returned) =>
    /\ result = "NULL"
    /\ log = <<"Expect expression.">>
    /\ Len(fns[1].constants) = 1
    /\ BytesOfConstant(1) = <<104, 105, 10>>

C21_Witness == src = RawExample /\ Returned

-----------------------------------------------------------------------------
(* getArgCount against the operand bytes of the instructions.               *)

(* C22: when endLoop has run, getArgCount gives for every instruction from  *)
(* loop.body on the number of operand bytes that follow its opcode (an      *)
(* OP_BREAK, which endLoop steps over by itself, aside).                    *)
C22_ArgCountIsOperandCount ==
  [][EndLoopRuns =>
       LET f == FnOf(M, Cur(M))
       IN \A i \in InstructionStarts(fns', f, CurLoop(M).body) :
            Byte(fns'[f].code, i) # Op("BREAK") =>
              getArgCount([fns |-> fns'], fns'[f].code, fns'[f].constants, i)
                = OperandBytes(fns', f, i)]_vars

-----------------------------------------------------------------------------
(* The end of a scope.                                                      *)

(* statement is in its last step after a block: endScope.                   *)
BlockEnds == At("statement") /\ stack[Len(stack)].pc = 1 /\ result' = "running"

(* The locals of the current function whose depth exceeds the depth the     *)
(* scope that ends was opened in.                                           *)
LocalsOfEndedScope ==
  {i \in DOMAIN comps[Cur(M)].locals :
     comps[Cur(M)].locals[i].depth > comps[Cur(M)].scopeDepth - 1}

(* C23: endScope decrements scopeDepth, removes exactly the locals whose    *)
(* depth exceeds the new scopeDepth, which are the topmost ones, and emits  *)
(* for them, topmost first, OP_CLOSE_UPVALUE if captured and OP_POP if not; *)
(* the locals below them stay as they are.                                  *)
C23_EndScopePopsDeeperLocals ==
  [][BlockEnds =>
       LET L == comps[Cur(M)].locals
           n == Len(L)
           k == Cardinality(LocalsOfEndedScope)
       IN /\ comps'[Cur(M)].scopeDepth = comps[Cur(M)].scopeDepth - 1
          /\ LocalsOfEndedScope = (n - k + 1)..n
          /\ comps'[Cur(M)].locals = SubSeq(L, 1, n - k)
          /\ CodeAfter = CodeBefore \o
               [j \in 1..k |-> IF L[n + 1 - j].isUpvalue
                                 THEN Op("CLOSE_UPVALUE") ELSE Op("POP")]]_vars

-----------------------------------------------------------------------------
(* break and continue inside a loop.                                        *)

BreakInLoop == At("breakStatement") /\ comps[Len(comps)].loops # <<>>

(* The locals of the current function that are deeper than the scope the    *)
(* innermost loop was opened in.                                            *)
LocalsOfLoop ==
  {i \in DOMAIN comps[Cur(M)].locals :
     comps[Cur(M)].locals[i].depth > CurLoop(M).scopeDepth}

(* C24: a break or continue inside a loop appends one byte for each local   *)
(* deeper than the loop's scopeDepth, topmost first, OP_CLOSE_UPVALUE for a *)
(* captured local and OP_POP otherwise, and then its three-byte OP_BREAK or *)
(* OP_LOOP; the locals and scopeDepth stay as they are.                     *)
C24_LoopExitDiscardsLocals ==
  [][(BreakInLoop \/ ContinueInLoop) /\ result' = "running" =>
       LET L == comps[Cur(M)].locals
           n == Len(L)
           k == Cardinality(LocalsOfLoop)
       IN /\ comps'[Cur(M)].locals = L
          /\ comps'[Cur(M)].scopeDepth = comps[Cur(M)].scopeDepth
          /\ Len(CodeAfter) = Len(CodeBefore) + k + 3
          /\ SubSeq(CodeAfter, 1, Len(CodeBefore) + k) = CodeBefore \o
               [j \in 1..k |-> IF L[n + 1 - j].isUpvalue
                                 THEN Op("CLOSE_UPVALUE") ELSE Op("POP")]
          /\ CodeAfter[Len(CodeBefore) + k + 1]
               = IF BreakInLoop THEN Op("BREAK") ELSE Op("LOOP")]_vars

-----------------------------------------------------------------------------
(* and, or.                                                                 *)

(* and_ and or_ are in their last step, after the right operand.  Field b   *)
(* of the frame is the chunk length when the rule was entered: the end of   *)
(* the code of the left operand.                                            *)
AndReturns == At("and_") /\ stack[Len(stack)].pc = 1 /\ result' = "running"

OrReturns == At("or_") /\ stack[Len(stack)].pc = 1 /\ result' = "running"

(* C25: when and_ returns, the code of the left operand is followed by      *)
(* OP_JUMP_IF_FALSE to the end of the chunk, OP_POP and the right operand;  *)
(* when or_ returns, by OP_JUMP_IF_FALSE to the OP_POP, OP_JUMP to the end  *)
(* of the chunk, that OP_POP and the right operand.                         *)
C25_ShortCircuitLayout ==
  [][/\ AndReturns =>
          LET b == stack[Len(stack)].b
          IN /\ SubSeq(CodeAfter, 1, b) = SubSeq(CodeBefore, 1, b)
             /\ Byte(CodeAfter, b) = Op("JUMP_IF_FALSE")
             /\ JumpTarget(CodeAfter, b) = Len(CodeAfter)
             /\ Byte(CodeAfter, b + 3) = Op("POP")
             /\ Len(CodeAfter) >= b + 4
     /\ OrReturns =>
          LET b == stack[Len(stack)].b
          IN /\ SubSeq(CodeAfter, 1, b) = SubSeq(CodeBefore, 1, b)
             /\ Byte(CodeAfter, b) = Op("JUMP_IF_FALSE")
             /\ JumpTarget(CodeAfter, b) = b + 6
             /\ Byte(CodeAfter, b + 3) = Op("JUMP")
             /\ JumpTarget(CodeAfter, b + 3) = Len(CodeAfter)
             /\ Byte(CodeAfter, b + 6) = Op("POP")
             /\ Len(CodeAfter) >= b + 7]_vars

(* a and b or c; has been compiled to a, JUMP_IF_FALSE L, POP, b, L: the    *)
(* layout of or with c.                                                     *)
C25_Witness ==
  /\ src = <<"a", "and", "b", "or", "c", ";">>
  /\ result = "function"
  /\ \E i \in Starts(1) : \E j \in Starts(1) :
       /\ Byte(fns[1].code, i) = Op("JUMP_IF_FALSE")
       /\ Byte(fns[1].code, i + 3) = Op("POP")
       /\ JumpTarget(fns[1].code, i) = j
       /\ Byte(fns[1].code, j) = Op("JUMP_IF_FALSE")
       /\ JumpTarget(fns[1].code, j) = j + 6
       /\ Byte(fns[1].code, j + 3) = Op("JUMP")
       /\ Byte(fns[1].code, j + 6) = Op("POP")
       /\ JumpTarget(fns[1].code, j + 3) \in Starts(1)

-----------------------------------------------------------------------------
(* `=` after an operand.                                                    *)

(* namedVariable is entered with `=` as the current token.                  *)
NameBeforeEqual ==
  /\ At("namedVariable") /\ stack[Len(stack)].pc = 0
  /\ parser.current.type = "EQUAL"
  /\ result' = "running"

(* The loop of parsePrecedence is at `=` in a call that allows assignment:  *)
(* no rule took the `=`.                                                    *)
EqualLeftOver ==
  /\ At("parsePrecedence") /\ stack[Len(stack)].pc = 1
  /\ stack[Len(stack)].canAssign
  /\ parser.current.type = "EQUAL"

(* A name takes the `=` after it only when the parsePrecedence call that    *)
(* compiles the name was entered with a precedence of at most ASSIGNMENT;   *)
(* otherwise the name is compiled as a read, two bytes with a get opcode,   *)
(* and the `=` stays the current token.                                     *)
AssignsOnlyAtAssignmentLevel ==
  [][NameBeforeEqual =>
       LET caller == stack[Len(stack) - 1]
       IN /\ caller.fn = "parsePrecedence"
          /\ stack[Len(stack)].canAssign <=> caller.prec <= Prec.ASSIGNMENT
          /\ IF pos' > pos
               THEN caller.prec <= Prec.ASSIGNMENT
               ELSE /\ parser' = parser
                    /\ Len(CodeAfter) = Len(CodeBefore) + 2
                    /\ CodeAfter[Len(CodeBefore) + 1] \in
                         OpsOf({"GET_LOCAL", "GET_UPVALUE", "GET_GLOBAL", "GET_MODULE"})]_vars

(* C26 as claimed: a name takes `=` only at assignment level, and an `=`    *)
(* no rule took records "Invalid assignment target."                        *)
C26_LeftOverEqualReported ==
  /\ AssignsOnlyAtAssignmentLevel
  /\ [][EqualLeftOver => Logged(TargetMessage)']_vars

(* C26, amended: a name takes `=` only at assignment level; an `=` no rule  *)
(* took is consumed and is an error, and "Invalid assignment target." is    *)
(* recorded unless the parser is in panic mode.                             *)
C26_LeftOverEqualIsAnError ==
  /\ AssignsOnlyAtAssignmentLevel
  /\ [][EqualLeftOver =>
          /\ parser'.hadError
          /\ parser'.previous.type = "EQUAL"
          /\ \/ parser.panicMode /\ log' = log
             \/ ~parser.panicMode /\ log' = Append(log, TargetMessage)]_vars

(* a + b = 1; has been compiled: a and b were read, OP_ADD emitted, no set  *)
(* opcode, and the message recorded.                                        *)
C26_Witness ==
  /\ src = <<"a", "+", "b", "=", "1", ";">>
  /\ result = "NULL"
  /\ log = <<TargetMessage>>
  /\ SubSeq(fns[1].code, 1, 5)
       = <<Op("GET_MODULE"), 0, Op("GET_MODULE"), 1, Op("ADD")>>
  /\ InstructionsOf(1, {"SET_MODULE", "SET_LOCAL", "SET_UPVALUE"}) = {}

-----------------------------------------------------------------------------
(* The name map of a function and its pool.                                 *)

(* C27: while no error is recorded, every index in the stringConstants map  *)
(* of an open function lies in the pool of that function and holds the      *)
(* string of its name, distinct names have distinct indices, and the pool   *)
(* holds the string of a name at most once.                                 *)
C27_NameMapMatchesPool ==
  ~parser.hadError =>
    \A ci \in DOMAIN comps :
      LET names == comps[ci].stringConstants
          values == fns[comps[ci].function].constants
      IN /\ \A name \in DOMAIN names :
              /\ names[name] < Len(values)
              /\ values[names[name] + 1] = STRING_VAL(name)
              /\ Cardinality({i \in DOMAIN values : values[i] = STRING_VAL(name)}) = 1
         /\ \A a, b \in DOMAIN names : names[a] = names[b] => a = b

-----------------------------------------------------------------------------
(* The operators of binary.                                                 *)

(* The operator opcodes.                                                    *)
OperatorOps ==
  OpsOf({"EQUAL", "GREATER", "LESS", "ADD", "SUBTRACT", "MULTIPLY", "DIVIDE",
         "POW", "MOD", "BITWISE_AND", "BITWISE_XOR", "BITWISE_OR"})

(* C30: when binary returns for an operator whose left operand does not end *)
(* in a number literal, the code of the two operands is unchanged and is    *)
(* followed by at least one byte, an operator opcode.                       *)
C30_BinaryEmitsAnOperator ==
  [][BinaryReturns /\ stack[Len(stack)].tok.type # "NUMBER" =>
       /\ Len(CodeAfter) > Len(CodeBefore)
       /\ SubSeq(CodeAfter, 1, Len(CodeBefore)) = CodeBefore
       /\ CodeAfter[Len(CodeBefore) + 1] \in OperatorOps]_vars

-----------------------------------------------------------------------------
(* The chain of compilers and the class pointers.                           *)

(* The compilers reached from compiler i through the enclosing links; -1    *)
(* stands for a link that leads to no open compiler.                        *)
RECURSIVE ChainFrom(_)
ChainFrom(i) ==
  IF i = 0 THEN <<>>
  ELSE IF i \notin DOMAIN comps THEN <<-1>>
  ELSE <<i>> \o ChainFrom(comps[i].enclosing)

(* The calls of function on the stack that have set up their compiler, and *)
(* the calls of classDeclaration among the first n frames that have set up *)
(* their classCompiler.                                                     *)
FunctionFrames == {i \in DOMAIN stack : stack[i].fn = "function" /\ stack[i].pc >= 1}

ClassFrames(n) == {i \in 1..n : stack[i].fn = "classDeclaration" /\ stack[i].pc >= 1}

(* The k-th smallest element of a set of numbers.                           *)
Nth(S, k) == CHOOSE i \in S : Cardinality({j \in S : j <= i}) = k

(* The names of the classes whose declaration is open in the first n        *)
(* frames, outermost first.                                                 *)
OpenClassNames(n) ==
  [k \in 1..Cardinality(ClassFrames(n)) |-> stack[Nth(ClassFrames(n), k)].tok.lex]

(* The frames that were on the stack when compiler ci last ran: all of them *)
(* for the current compiler, those below the call of function that set up   *)
(* compiler ci + 1 for another.                                             *)
FramesOf(ci) == IF ci = Len(comps) THEN Len(stack) ELSE Nth(FunctionFrames, ci)

(* C28: while compile runs, the compilers reached from vm->compiler through *)
(* the enclosing links are the open compilers, innermost first, one for     *)
(* compile and one for each call of function in progress; the class chain   *)
(* of each compiler is that of the class declarations open around it; and   *)
(* once compile has returned vm->compiler is null.                          *)
C28_CompilerChainFollowsCalls ==
  /\ (result = "running" /\ comps # <<>>) =>
       /\ ChainFrom(parser.vm.compiler) = [k \in 1..Len(comps) |-> Len(comps) + 1 - k]
       /\ Len(comps) = 1 + Cardinality(FunctionFrames)
       /\ \A ci \in DOMAIN comps :
            [j \in DOMAIN comps[ci].class |-> comps[ci].class[j].name]
              = OpenClassNames(FramesOf(ci))
  /\ Returned => parser.vm.compiler = 0 /\ comps = <<>>

(* The method n of class B, declared in method m of class A, is being       *)
(* compiled: three compilers are chained, the innermost has the class chain *)
(* A, B and that of m has it too, the declaration of B being open in m.     *)
C28_Witness ==
  /\ result = "running"
  /\ Len(comps) = 3
  /\ ChainFrom(parser.vm.compiler) = <<3, 2, 1>>
  /\ [j \in DOMAIN comps[3].class |-> comps[3].class[j].name] = <<"A", "B">>
  /\ [j \in DOMAIN comps[2].class |-> comps[2].class[j].name] = <<"A", "B">>
  /\ [j \in DOMAIN comps[1].class |-> comps[1].class[j].name] = <<"A">>

-----------------------------------------------------------------------------
(* A class declared in a local scope.                                       *)

(* classDeclaration is in its last step, in a local scope.                  *)
LocalClassEnds ==
  /\ At("classDeclaration") /\ stack[Len(stack)].pc = 2
  /\ comps[Cur(M)].scopeDepth > 0
  /\ result' = "running"

(* C29: when the declaration of a class in a local scope ends, the top      *)
(* local is the local of the class name, defined at the current scopeDepth, *)
(* and no local of a superclass scope is left: every local of the function  *)
(* is defined, so reading the class name records no error.                  *)
C29_ClassLocalDefined ==
  [][LocalClassEnds =>
       LET L == comps'[Cur(M)].locals
       IN /\ comps'[Cur(M)].scopeDepth = comps[Cur(M)].scopeDepth
                                           - (IF Len(comps[Cur(M)].locals) = Len(L) THEN 0 ELSE 1)
          /\ L[Len(L)].name = stack[Len(stack)].tok.lex
          /\ L[Len(L)].depth = comps'[Cur(M)].scopeDepth
          /\ \A i \in DOMAIN L : L[i].name # "super" /\ L[i].depth # -1]_vars

=============================================================================
